---- MODULE Spec2Model ----
(***************************************************************************)
(* hookshot: the multi-queue task manager (src/src/task_manager.rs).       *)
(*                                                                         *)
(* A TaskManager owns a map of queues and a map of worker threads.  The    *)
(* manager's methods take &mut self, so calls on the manager never overlap *)
(* each other; they do overlap the worker threads, which share only the    *)
(* per-queue mutex and the wake-up channel with the manager.  A manager    *)
(* call is therefore split where it releases the queue lock or blocks      *)
(* (between push_task and the wake-up send of add_task, and at each join   *)
(* of shutdown); `mpc` is the position of the call in progress.            *)
(***************************************************************************)
EXTENDS Naturals, Sequences, FiniteSets, TLC

\* ---------------------------------------------------------------- bounds
MaxKeys == 2
MaxTasks == 3
MaxWorkers == 3
MaxLimit == 2
MaxShutdowns == 1

\* tests::test_task_manager_limit submits five tasks with limit Some(1).
FiveTasks == 5
TestLimit == 1

Keys == 1 .. MaxKeys

\* Option<u64>
None == [some |-> FALSE, v |-> 0]
Some(x) == [some |-> TRUE, v |-> x]
Limits == {None} \cup {Some(x) : x \in 0 .. MaxLimit}

VARIABLES
    limit,          \* TaskManager.limit, copied into every Queue
    shutdown_lock,  \* TaskManager.shutdown_lock is Some(sender)
    stopped,        \* TaskManager.stopped
    queues,         \* TaskManager.queues: key -> VecDeque of task ids, oldest first
    threads,        \* TaskManager.threads: key -> worker (its JoinHandle and Sender)
    workers,        \* every worker thread spawned so far
    tasks,          \* every task handed to push_task, by id
    runlog,         \* per key, the tasks whose run() was called, in call order
    mpc,            \* the manager call in progress
    result,         \* what the last add_task call returned
    sink            \* units sent on the shutdown channel

vars == <<limit, shutdown_lock, stopped, queues, threads, workers, tasks,
          runlog, mpc, result, sink>>

\* The server around the manager (src/src/cli.rs): the manager sits in an
\* Arc<Mutex<..>> shared by the request handlers, every POST /tasks gets a
\* fresh uuid (its index in `reqs`) and a log file <log_root>/<uuid>.log.
VARIABLES
    env_insecure,   \* the environment's HOOKSHOT_INSECURE: <<>> or <<value>>
    reqs,           \* every POST /tasks request received so far, by uuid
    files,          \* the log files that exist: uuid -> content
    holder,         \* the request whose handler holds the manager mutex, or 0
    payload,        \* a request body handed to the payload parsers
    repo            \* the GitRepo made from `payload`: <<>> or <<repo>>

\* One DeployTask::run (src/src/deploy_task.rs) with the repository's
\* .hookshot.conf (src/src/repo_config.rs) and its notifier threads
\* (src/src/notifier.rs).
VARIABLES
    dpc,            \* where DeployTask::run is
    toml,           \* the configuration file read: <<>> or <<document>>
    config,         \* what its from / from_str returned: <<>> or <<result>>
    ref_config,     \* what config.lookup returned: <<>> (None) or <<Config>>
    output_result,  \* what the command runner returned: <<>> or <<result>>
    notified,       \* the TaskStates send_message was called with, in order
    senders,        \* the threads send_message spawned
    posts,          \* the notification POSTs made so far
    wildcards,      \* a vector of Configs, as RepoConfig::lookup collects and sorts
    sigrec,         \* a signature made, written and parsed: <<>> or <<record>>
    git             \* the checkout at local_path and the get_latest calls on it

dvars == <<dpc, toml, config, ref_config, output_result, notified, senders, posts,
           wildcards, sigrec, git>>

\* No get_latest called yet: whether local_path is a directory, where the
\* call in progress is, the git commands run so far, what the calls returned
NoGit == [exists |-> FALSE, pc |-> "idle", cmds |-> <<>>, results |-> <<>>]

\* No task being deployed
NoDeploy ==
    /\ dpc = "idle"
    /\ toml = <<>>
    /\ config = <<>>
    /\ ref_config = <<>>
    /\ output_result = <<>>
    /\ notified = <<>>
    /\ senders = <<>>
    /\ posts = <<>>
    /\ wildcards = <<>>
    /\ sigrec = <<>>
    /\ git = NoGit

ivars == <<env_insecure, reqs, files, holder, payload, repo, dvars>>

\* No server around the manager: TaskManager used directly, as in its tests
NoServer ==
    /\ env_insecure = <<>>
    /\ reqs = <<>>
    /\ files = <<>>
    /\ holder = 0
    /\ payload = <<>>
    /\ repo = <<>>
    /\ NoDeploy

Idle == [op |-> "idle", key |-> 0, task |-> 0, rest |-> <<>>, joining |-> 0]

NoTask == 0

\* A worker thread: the queue it serves, its position in the loop, the task
\* it is running, the wake-ups buffered in its channel and whether the
\* channel's Sender is still alive.
NewWorker(key) ==
    [key |-> key, pc |-> "recv", task |-> NoTask, wake |-> 0, tx |-> TRUE]

\* A task as the manager sees it, with what happened to it so far.
NewTask(key, status, during) ==
    [key |-> key, status |-> status, state |-> "new", cancels |-> 0,
     recvd |-> <<>>, res |-> "pending", during |-> during]

Init ==
    /\ limit \in Limits
    /\ shutdown_lock \in BOOLEAN
    /\ stopped = FALSE
    /\ queues = <<>>
    /\ threads = <<>>
    /\ workers = <<>>
    /\ tasks = <<>>
    /\ runlog = [k \in Keys |-> <<>>]
    /\ mpc = Idle
    /\ result = "none"
    /\ sink = 0
    /\ NoServer

\* ----------------------------------------------------------------- Queue

\* pop_task taking the newest task (pop_back) instead of the oldest
pop_task_back(q) ==
    IF q = <<>> THEN [task |-> NoTask, queue |-> q]
    ELSE [task |-> q[Len(q)], queue |-> SubSeq(q, 1, Len(q) - 1)]

\* Queue::pop_task: VecDeque::pop_front
pop_task(q) ==
    IF q = <<>> THEN [task |-> NoTask, queue |-> q]
    ELSE [task |-> Head(q), queue |-> Tail(q)]

\* push_task comparing len > limit instead of len + 1 > limit
RECURSIVE push_task_off_by_one(_, _, _)
push_task_off_by_one(q, lim, t) ==
    IF lim.some /\ lim.v < 1
    THEN [queue |-> q, cancelled |-> <<>>, pushed |-> FALSE]
    ELSE IF lim.some /\ Len(q) > lim.v
    THEN LET r == push_task_off_by_one(Tail(q), lim, t)
         IN  [queue |-> r.queue, cancelled |-> <<Head(q)>> \o r.cancelled,
              pushed |-> r.pushed]
    ELSE [queue |-> Append(q, t), cancelled |-> <<>>, pushed |-> TRUE]

\* push_task evicting the newest pending task (pop_back) instead of the oldest
RECURSIVE push_task_evict_newest(_, _, _)
push_task_evict_newest(q, lim, t) ==
    IF lim.some /\ lim.v < 1
    THEN [queue |-> q, cancelled |-> <<>>, pushed |-> FALSE]
    ELSE IF lim.some /\ Len(q) + 1 > lim.v
    THEN LET r == push_task_evict_newest(SubSeq(q, 1, Len(q) - 1), lim, t)
         IN  [queue |-> r.queue, cancelled |-> <<q[Len(q)]>> \o r.cancelled,
              pushed |-> r.pushed]
    ELSE [queue |-> Append(q, t), cancelled |-> <<>>, pushed |-> TRUE]

\* push_task that never evicts
push_task_noevict(q, lim, t) ==
    IF lim.some /\ lim.v < 1
    THEN [queue |-> q, cancelled |-> <<>>, pushed |-> FALSE]
    ELSE [queue |-> Append(q, t), cancelled |-> <<>>, pushed |-> TRUE]

\* Queue::push_task: the new queue, the evicted tasks (cancel() is called on
\* each, oldest first) and whether the task was appended.
RECURSIVE push_task(_, _, _)
push_task(q, lim, t) ==
    IF lim.some /\ lim.v < 1
    THEN [queue |-> q, cancelled |-> <<>>, pushed |-> FALSE]
    ELSE IF lim.some /\ Len(q) + 1 > lim.v
    THEN LET p == pop_task(q)
             r == push_task(p.queue, lim, t)
         IN  [queue |-> r.queue,
              cancelled |-> (IF p.task # NoTask THEN <<p.task>> ELSE <<>>)
                             \o r.cancelled,
              pushed |-> r.pushed]
    ELSE [queue |-> Append(q, t), cancelled |-> <<>>, pushed |-> TRUE]

\* Runnable::cancel on every task of `ids`
Cancel(ts, ids) ==
    [i \in DOMAIN ts |->
        IF \E j \in DOMAIN ids : ids[j] = i
        THEN [ts[i] EXCEPT !.status = "cancelled",
                           !.cancels = @ + Cardinality({j \in DOMAIN ids : ids[j] = i})]
        ELSE ts[i]]

\* The task `key`'s worker is running right now (0 if none).
RunningOn(key) ==
    IF \E w \in DOMAIN workers : workers[w].key = key /\ workers[w].pc = "running"
    THEN workers[CHOOSE w \in DOMAIN workers :
                     workers[w].key = key /\ workers[w].pc = "running"].task
    ELSE NoTask

\* ----------------------------------------------------------- TaskManager

\* start_worker without the threads.contains_key check: the insert replaces
\* the entry, which drops the old worker's Sender
start_worker_nocheck(key, st, th, ws) ==
    IF st
    THEN [threads |-> th, workers |-> ws]
    ELSE [threads |-> [k \in DOMAIN th \cup {key} |->
                          IF k = key THEN Len(ws) + 1 ELSE th[k]],
          workers |-> Append([w \in DOMAIN ws |->
                                 IF key \in DOMAIN th /\ th[key] = w
                                 THEN [ws[w] EXCEPT !.tx = FALSE] ELSE ws[w]],
                             NewWorker(key))]

\* TaskManager::start_worker, as a function of the manager's fields
start_worker(key, st, th, ws) ==
    IF st \/ key \in DOMAIN th
    THEN [threads |-> th, workers |-> ws]
    ELSE [threads |-> th @@ (key :> (Len(ws) + 1)),
          workers |-> Append(ws, NewWorker(key))]

\* TaskManager::ensure_queue
ensure_queue(k) ==
    /\ mpc = Idle
    /\ IF k \in DOMAIN queues
       THEN UNCHANGED <<queues, threads, workers>>
       ELSE LET s == start_worker(k, stopped, threads, workers)
            IN  /\ Len(s.workers) <= MaxWorkers
                /\ queues' = queues @@ (k :> <<>>)
                /\ threads' = s.threads
                /\ workers' = s.workers
    /\ UNCHANGED <<limit, shutdown_lock, stopped, tasks, runlog, mpc, result, sink>>

\* add_task without the stopped check
add_task_push_nocheck(k, max) ==
    /\ mpc = Idle
    /\ IF k \notin DOMAIN queues
       THEN /\ result' = "QueueMissing"
            /\ UNCHANGED <<queues, tasks, mpc>>
       ELSE LET t == Len(tasks) + 1
                r == push_task(queues[k], limit, t)
            IN  /\ t <= max
                /\ queues' = [queues EXCEPT ![k] = r.queue]
                /\ tasks' = Cancel(
                       Append(tasks,
                              NewTask(k, IF r.pushed THEN "pending" ELSE "dropped",
                                      RunningOn(k))),
                       r.cancelled)
                /\ mpc' = [Idle EXCEPT !.op = "add_task", !.key = k, !.task = t]
                /\ UNCHANGED result
    /\ UNCHANGED <<limit, shutdown_lock, stopped, threads, workers, runlog, sink>>

\* TaskManager::add_task up to the release of the queue lock: the stopped
\* check, the queue lookup and push_task.
add_task_push(k, max) ==
    /\ mpc = Idle
    /\ IF stopped
       THEN /\ result' = "Shutdown"
            /\ UNCHANGED <<queues, tasks, mpc>>
       ELSE IF k \notin DOMAIN queues
       THEN /\ result' = "QueueMissing"
            /\ UNCHANGED <<queues, tasks, mpc>>
       ELSE LET t == Len(tasks) + 1
                r == push_task(queues[k], limit, t)
            IN  /\ t <= max
                /\ queues' = [queues EXCEPT ![k] = r.queue]
                /\ tasks' = Cancel(
                       Append(tasks,
                              NewTask(k, IF r.pushed THEN "pending" ELSE "dropped",
                                      RunningOn(k))),
                       r.cancelled)
                /\ mpc' = [Idle EXCEPT !.op = "add_task", !.key = k, !.task = t]
                /\ UNCHANGED result
    /\ UNCHANGED <<limit, shutdown_lock, stopped, threads, workers, runlog, sink>>

\* TaskManager::add_task from get_channel to its return: the wake-up send.
\* get_channel(..).unwrap() panics when the thread map has no entry.
add_task_send ==
    /\ mpc.op = "add_task"
    /\ IF mpc.key \in DOMAIN threads
       THEN /\ workers' = [workers EXCEPT ![threads[mpc.key]].wake = @ + 1]
            /\ result' = "Ok"
            /\ tasks' = [tasks EXCEPT ![mpc.task].res = "Ok"]
       ELSE /\ result' = "Panic"
            /\ tasks' = [tasks EXCEPT ![mpc.task].res = "Panic"]
            /\ UNCHANGED workers
    /\ mpc' = Idle
    /\ UNCHANGED <<limit, shutdown_lock, stopped, queues, threads, runlog, sink>>

\* The keys of a BTreeMap, in order
RECURSIVE SortedKeys(_)
SortedKeys(S) ==
    IF S = {} THEN <<>>
    ELSE LET m == CHOOSE x \in S : \A y \in S : x <= y
         IN  <<m>> \o SortedKeys(S \ {m})

\* TaskManager::shutdown: the flag, and the iteration over queues.keys()
shutdown_begin ==
    /\ mpc = Idle
    /\ sink < MaxShutdowns
    /\ stopped' = TRUE
    /\ mpc' = [Idle EXCEPT !.op = "shutdown", !.rest = SortedKeys(DOMAIN queues)]
    /\ UNCHANGED <<limit, shutdown_lock, queues, threads, workers, tasks, runlog,
                   result, sink>>

\* TaskManager::shutdown: threads.remove(key), which drops the worker's Sender
shutdown_remove ==
    /\ mpc.op = "shutdown"
    /\ mpc.joining = 0
    /\ mpc.rest # <<>>
    /\ LET key == Head(mpc.rest)
       IN  IF key \in DOMAIN threads
           THEN /\ threads' = [k \in DOMAIN threads \ {key} |-> threads[k]]
                /\ workers' = [workers EXCEPT ![threads[key]].tx = FALSE]
                /\ mpc' = [mpc EXCEPT !.joining = threads[key]]
           ELSE /\ mpc' = [mpc EXCEPT !.rest = Tail(@)]
                /\ UNCHANGED <<threads, workers>>
    /\ UNCHANGED <<limit, shutdown_lock, stopped, queues, tasks, runlog, result, sink>>

\* shutdown that does not join the worker
shutdown_join_nowait ==
    /\ mpc.op = "shutdown"
    /\ mpc.joining # 0
    /\ mpc' = [mpc EXCEPT !.joining = 0, !.rest = Tail(@)]
    /\ UNCHANGED <<limit, shutdown_lock, stopped, queues, threads, workers, tasks,
                   runlog, result, sink>>

\* TaskManager::shutdown: handle.join() returns once the worker has exited
shutdown_join ==
    /\ mpc.op = "shutdown"
    /\ mpc.joining # 0
    /\ workers[mpc.joining].pc = "exited"
    /\ mpc' = [mpc EXCEPT !.joining = 0, !.rest = Tail(@)]
    /\ UNCHANGED <<limit, shutdown_lock, stopped, queues, threads, workers, tasks,
                   runlog, result, sink>>

\* TaskManager::shutdown: the send on the shutdown lock, and the return
shutdown_send ==
    /\ mpc.op = "shutdown"
    /\ mpc.joining = 0
    /\ mpc.rest = <<>>
    /\ sink' = IF shutdown_lock THEN sink + 1 ELSE sink
    /\ mpc' = Idle
    /\ UNCHANGED <<limit, shutdown_lock, stopped, queues, threads, workers, tasks,
                   runlog, result>>

\* TaskManager::restart: start_worker for every key, then the flag
RECURSIVE StartAll(_, _, _, _)
StartAll(keys, st, th, ws) ==
    IF keys = <<>> THEN [threads |-> th, workers |-> ws]
    ELSE LET s == start_worker(Head(keys), st, th, ws)
         IN  StartAll(Tail(keys), st, s.threads, s.workers)

restart ==
    /\ mpc = Idle
    /\ LET s == StartAll(SortedKeys(DOMAIN queues), stopped, threads, workers)
       IN  /\ Len(s.workers) <= MaxWorkers
           /\ threads' = s.threads
           /\ workers' = s.workers
    /\ stopped' = FALSE
    /\ UNCHANGED <<limit, shutdown_lock, queues, tasks, runlog, mpc, result, sink>>

\* ---------------------------------------------------------------- worker

\* worker loop: worker_rx.recv(); buffered wake-ups are received even after
\* the Sender was dropped, and recv() fails only on an empty, closed channel
worker_recv(w) ==
    /\ workers[w].pc = "recv"
    /\ IF workers[w].wake > 0
       THEN workers' = [workers EXCEPT ![w].wake = @ - 1, ![w].pc = "woken"]
       ELSE /\ ~workers[w].tx
            /\ workers' = [workers EXCEPT ![w].pc = "exited"]
    /\ UNCHANGED <<limit, shutdown_lock, stopped, queues, threads, tasks, runlog,
                   mpc, result, sink>>

\* a worker loop that takes its task only while no other worker runs one,
\* as it would if run() were called under a lock shared by all workers
worker_pop_shared_lock(w) ==
    /\ workers[w].pc = "woken"
    /\ \A v \in DOMAIN workers : workers[v].pc # "running"
    /\ LET k == workers[w].key
           p == pop_task(queues[k])
       IN  /\ queues' = [queues EXCEPT ![k] = p.queue]
           /\ IF p.task = NoTask
              THEN /\ workers' = [workers EXCEPT ![w].pc = "recv"]
                   /\ UNCHANGED <<tasks, runlog>>
              ELSE /\ workers' = [workers EXCEPT ![w].pc = "running", ![w].task = p.task]
                   /\ tasks' = [tasks EXCEPT ![p.task].status = "running"]
                   /\ runlog' = [runlog EXCEPT ![k] = Append(@, p.task)]
    /\ UNCHANGED <<limit, shutdown_lock, stopped, threads, mpc, result, sink>>

\* worker loop: queue.lock().unwrap().pop_task(), and the spawn of the
\* thread that calls task.run()
worker_pop(w) ==
    /\ workers[w].pc = "woken"
    /\ LET k == workers[w].key
           p == pop_task(queues[k])
       IN  /\ queues' = [queues EXCEPT ![k] = p.queue]
           /\ IF p.task = NoTask
              THEN /\ workers' = [workers EXCEPT ![w].pc = "recv"]
                   /\ UNCHANGED <<tasks, runlog>>
              ELSE /\ workers' = [workers EXCEPT ![w].pc = "running", ![w].task = p.task]
                   /\ tasks' = [tasks EXCEPT ![p.task].status = "running"]
                   /\ runlog' = [runlog EXCEPT ![k] = Append(@, p.task)]
    /\ UNCHANGED <<limit, shutdown_lock, stopped, threads, mpc, result, sink>>

\* the spawned thread sending the task before it has run
run_return_send_first(w) ==
    /\ workers[w].pc = "running"
    /\ LET t == workers[w].task
       IN  tasks' = [tasks EXCEPT ![t].status = "completed",
                                  ![t].state = "mutated",
                                  ![t].recvd = IF tasks[t].res = "Panic"
                                               THEN @ ELSE Append(@, "new")]
    /\ workers' = [workers EXCEPT ![w].pc = "recv", ![w].task = NoTask]
    /\ UNCHANGED <<limit, shutdown_lock, stopped, queues, threads, runlog, mpc,
                   result, sink>>

\* the spawned thread: task.run() returns, task_tx.send(task), and the join.
\* The send delivers the task as run() left it; it fails (and is ignored) when
\* the Receiver is gone, which it is when add_task unwound instead of returning.
run_return(w) ==
    /\ workers[w].pc = "running"
    /\ LET t == workers[w].task
       IN  tasks' = [tasks EXCEPT ![t].status = "completed",
                                  ![t].state = "mutated",
                                  ![t].recvd = IF tasks[t].res = "Panic"
                                               THEN @ ELSE Append(@, "mutated")]
    /\ workers' = [workers EXCEPT ![w].pc = "recv", ![w].task = NoTask]
    /\ UNCHANGED <<limit, shutdown_lock, stopped, queues, threads, runlog, mpc,
                   result, sink>>

\* task.run() called on the worker thread itself: its panic ends the worker
run_panic_unwinds_worker(w) ==
    /\ workers[w].pc = "running"
    /\ LET t == workers[w].task
       IN  tasks' = [tasks EXCEPT ![t].status = "panicked"]
    /\ workers' = [workers EXCEPT ![w].pc = "exited", ![w].task = NoTask]
    /\ UNCHANGED <<limit, shutdown_lock, stopped, queues, threads, runlog, mpc,
                   result, sink>>

\* the spawned thread: task.run() panics, nothing is sent, join() returns Err
run_panic(w) ==
    /\ workers[w].pc = "running"
    /\ LET t == workers[w].task
       IN  tasks' = [tasks EXCEPT ![t].status = "panicked"]
    /\ workers' = [workers EXCEPT ![w].pc = "recv", ![w].task = NoTask]
    /\ UNCHANGED <<limit, shutdown_lock, stopped, queues, threads, runlog, mpc,
                   result, sink>>

\* ---------------------------------------------------------- specification

Next ==
    \/ (\E k \in Keys : ensure_queue(k)) /\ UNCHANGED ivars
    \/ (\E k \in Keys : add_task_push(k, MaxTasks)) /\ UNCHANGED ivars
    \/ (add_task_send) /\ UNCHANGED ivars
    \/ (shutdown_begin) /\ UNCHANGED ivars
    \/ (shutdown_remove) /\ UNCHANGED ivars
    \/ (shutdown_join) /\ UNCHANGED ivars
    \/ (shutdown_send) /\ UNCHANGED ivars
    \/ (restart) /\ UNCHANGED ivars
    \/ (\E w \in DOMAIN workers : worker_recv(w)) /\ UNCHANGED ivars
    \/ (\E w \in DOMAIN workers : worker_pop(w)) /\ UNCHANGED ivars
    \/ (\E w \in DOMAIN workers : run_return(w)) /\ UNCHANGED ivars
    \/ (\E w \in DOMAIN workers : run_panic(w)) /\ UNCHANGED ivars

Spec == Init /\ [][Next]_vars

\* The manager on which shutdown() is never called
NextWake ==
    \/ (\E k \in Keys : ensure_queue(k)) /\ UNCHANGED ivars
    \/ (\E k \in Keys : add_task_push(k, MaxTasks)) /\ UNCHANGED ivars
    \/ (add_task_send) /\ UNCHANGED ivars
    \/ (\E w \in DOMAIN workers : worker_recv(w)) /\ UNCHANGED ivars
    \/ (\E w \in DOMAIN workers : worker_pop(w)) /\ UNCHANGED ivars
    \/ (\E w \in DOMAIN workers : run_return(w)) /\ UNCHANGED ivars
    \/ (\E w \in DOMAIN workers : run_panic(w)) /\ UNCHANGED ivars

\* what the worker threads and the threads that call run() do
WakeSteps ==
    \E w \in DOMAIN workers :
        (worker_recv(w) \/ worker_pop(w) \/ run_return(w) \/ run_panic(w))
            /\ UNCHANGED ivars

\* The worker threads are scheduled and every run() ends
SpecWake == Init /\ [][NextWake]_vars /\ WF_vars(WakeSteps)

\* tests::test_task_manager_limit: TaskManager::new(Some(1)), one queue, five
\* add_task calls from one thread, tasks whose run() returns.
InitLimit ==
    /\ limit = Some(TestLimit)
    /\ shutdown_lock = FALSE
    /\ stopped = FALSE
    /\ queues = <<>>
    /\ threads = <<>>
    /\ workers = <<>>
    /\ tasks = <<>>
    /\ runlog = [k \in Keys |-> <<>>]
    /\ mpc = Idle
    /\ result = "none"
    /\ sink = 0
    /\ NoServer

NextLimit ==
    \/ (ensure_queue(1)) /\ UNCHANGED ivars
    \/ (add_task_push(1, FiveTasks)) /\ UNCHANGED ivars
    \/ (add_task_send) /\ UNCHANGED ivars
    \/ (\E w \in DOMAIN workers : worker_recv(w)) /\ UNCHANGED ivars
    \/ (\E w \in DOMAIN workers : worker_pop(w)) /\ UNCHANGED ivars
    \/ (\E w \in DOMAIN workers : run_return(w)) /\ UNCHANGED ivars

SpecLimit == InitLimit /\ [][NextLimit]_vars

\* ---------------------------------------------------------------- strings
\* A String is the sequence of its characters, each a one-character string.

Digits == {"0", "1", "2", "3", "4", "5", "6", "7", "8", "9"}
LowerCase == {"a", "b", "c", "d", "e", "f", "g", "h", "i", "j", "k", "l", "m",
              "n", "o", "p", "q", "r", "s", "t", "u", "v", "w", "x", "y", "z"}
UpperCase == {"A", "B", "C", "D", "E", "F", "G", "H", "I", "J", "K", "L", "M",
              "N", "O", "P", "Q", "R", "S", "T", "U", "V", "W", "X", "Y", "Z"}

\* str::replace with one-character pattern and replacement
Replace(s, from, to) == [i \in DOMAIN s |-> IF s[i] = from THEN to ELSE s[i]]

\* str::split(sep).collect(): the pieces between the separators, empty ones
\* included
RECURSIVE Split(_, _)
Split(s, sep) ==
    IF \A i \in DOMAIN s : s[i] # sep THEN <<s>>
    ELSE LET i == CHOOSE i \in DOMAIN s :
                      s[i] = sep /\ \A j \in 1 .. (i - 1) : s[j] # sep
         IN  <<SubSeq(s, 1, i - 1)>> \o Split(SubSeq(s, i + 1, Len(s)), sep)

\* format!("{}.{}.{}", a, b, c)
Dotted(a, b, c) == a \o <<".">> \o b \o <<".">> \o c

\* -------------------------------------------------------------- signature

HashTypes == <<"MD5", "SHA1", "SHA224", "SHA256", "SHA384", "SHA512", "RIPEMD160">>

\* HashType::to_string
HashNames ==
    <<<<"m", "d", "5">>,
      <<"s", "h", "a", "1">>,
      <<"s", "h", "a", "2", "2", "4">>,
      <<"s", "h", "a", "2", "5", "6">>,
      <<"s", "h", "a", "3", "8", "4">>,
      <<"s", "h", "a", "5", "1", "2">>,
      <<"r", "i", "p", "e", "m", "d", "1", "6", "0">>>>

AlgIndex(alg) == CHOOSE i \in DOMAIN HashTypes : HashTypes[i] = alg

\* HashType::from_str: <<>> is None
HashType_from_str(hasher) ==
    IF \E i \in DOMAIN HashNames : HashNames[i] = hasher
    THEN <<HashTypes[CHOOSE i \in DOMAIN HashNames : HashNames[i] = hasher]>>
    ELSE <<>>

\* the classes [:word:] and [:xdigit:] of the signature pattern
WordChars == Digits \cup LowerCase \cup UpperCase \cup {"_"}
XDigitChars == Digits \cup {"a", "b", "c", "d", "e", "f"}
                      \cup {"A", "B", "C", "D", "E", "F"}

HexDigits == <<"0", "1", "2", "3", "4", "5", "6", "7", "8", "9",
               "a", "b", "c", "d", "e", "f">>

\* The server's config.secret, and another key
Secret == "it's a secret to everyone"
OtherSecret == "shh"

\* openssl hmac(alg, key, data): a one-byte digest that differs whenever the
\* algorithm, the data (a body, by its index in Bodies) or the key differ
hmac(alg, key, data) ==
    <<(AlgIndex(alg) * 32 + data * 4 + (IF key = Secret THEN 1 ELSE 2)) % 256>>

\* bytes_to_hex: two lower-case hex digits per byte
bytes_to_hex(bytes) ==
    [i \in 1 .. 2 * Len(bytes) |->
        LET b == bytes[(i + 1) \div 2]
        IN  HexDigits[(IF i % 2 = 1 THEN b \div 16 ELSE b % 16) + 1]]

\* Signature::from, which the handler calls as Signature::from_str: the
\* text must match ^([:word:]+)=([:xdigit:]+)$ and name a known algorithm.
\* <<>> is None.
Signature_from(sig) ==
    LET eqs == {i \in DOMAIN sig : sig[i] = "="}
    IN  IF Cardinality(eqs) # 1 THEN <<>>
        ELSE LET i == CHOOSE i \in eqs : TRUE
                 hash == SubSeq(sig, 1, i - 1)
                 hex == SubSeq(sig, i + 1, Len(sig))
             IN  IF \/ hash = <<>>
                    \/ hex = <<>>
                    \/ \E j \in DOMAIN hash : hash[j] \notin WordChars
                    \/ \E j \in DOMAIN hex : hex[j] \notin XDigitChars
                    \/ HashType_from_str(hash) = <<>>
                 THEN <<>>
                 ELSE <<[alg |-> HashType_from_str(hash)[1], hex |-> hex]>>

\* Signature::create
Signature_create(alg, data, key) ==
    [alg |-> alg, hex |-> bytes_to_hex(hmac(alg, key, data))]

\* Signature::verify
Signature_verify(sig, data, key) == sig = Signature_create(sig.alg, data, key)

\* a Display that writes "{}:{}"
Signature_fmt_colon(sig) == HashNames[AlgIndex(sig.alg)] \o <<":">> \o sig.hex

\* impl Display for Signature
Signature_fmt(sig) == HashNames[AlgIndex(sig.alg)] \o <<"=">> \o sig.hex

\* --------------------------------------------------------------- payloads
\* A request body: whether it is UTF-8, whether it is a JSON object, and the
\* object's string fields (nested fields under their dotted path).

Body(utf8, json, obj) == [utf8 |-> utf8, json |-> json, obj |-> obj]

BranchStr == <<"b", "r", "a", "n", "c", "h">>
TagStr == <<"t", "a", "g">>
RefsStr == <<"r", "e", "f", "s">>
HeadsStr == <<"h", "e", "a", "d", "s">>
TagsStr == <<"t", "a", "g", "s">>

\* SimpleMessage::from_str (json::decode into the struct): every field but
\* `prefix` is required and `reftype` must name a RefType.  <<>> is Err.
SimpleMessage_from_str(b) ==
    IF \/ ~b.json
       \/ ~({"reftype", "refstring", "remote", "sha", "repo_name"} \subseteq DOMAIN b.obj)
    THEN <<>>
    ELSE IF b.obj["reftype"] \notin {TagStr, BranchStr}
    THEN <<>>
    ELSE <<[prefix |-> IF "prefix" \in DOMAIN b.obj THEN <<b.obj["prefix"]>> ELSE <<>>,
            reftype |-> IF b.obj["reftype"] = TagStr THEN "tag" ELSE "branch",
            refstring |-> b.obj["refstring"],
            remote |-> b.obj["remote"],
            sha |-> b.obj["sha"],
            repo_name |-> b.obj["repo_name"]]>>

\* GitHubMessage::from_str: `ref` is split on "/" and must start with
\* refs/heads or refs/tags; its third piece is the refstring.  <<>> is Err.
GitHubMessage_from_str(b) ==
    IF \/ ~b.json
       \/ ~({"ref", "repository.name", "after", "repository.owner.name",
             "repository.ssh_url"} \subseteq DOMAIN b.obj)
    THEN <<>>
    ELSE LET parts == Split(b.obj["ref"], "/")
         IN  IF \/ Len(parts) < 3
                \/ parts[1] # RefsStr
                \/ parts[2] \notin {HeadsStr, TagsStr}
             THEN <<>>
             ELSE <<[reftype |-> IF parts[2] = HeadsStr THEN "branch" ELSE "tag",
                     refstring |-> parts[3],
                     repo_name |-> b.obj["repository.name"],
                     owner |-> b.obj["repository.owner.name"],
                     git_url |-> b.obj["repository.ssh_url"],
                     sha |-> b.obj["after"]]>>

\* path.replace("/", "!").replace("\\", "!") of format!("{}.{}.{}", ..)
local_path_component(prefix, repo_name, refstring) ==
    Replace(Replace(Dotted(prefix, repo_name, refstring), "/", "!"), "\\", "!")

\* impl ToGitRepo for GitHubMessage
GitHubMessage_to_git_repo(m, root) ==
    [owner |-> m.owner,
     name |-> m.repo_name,
     refstring |-> m.refstring,
     reftype |-> m.reftype,
     sha |-> m.sha,
     local_path |-> root \o <<"/">>
                         \o local_path_component(m.owner, m.repo_name, m.refstring),
     remote_path |-> m.git_url]

\* impl ToGitRepo for SimpleMessage: the owner is the prefix or "$", and its
\* dots become "!" in the path
SimpleMessage_to_git_repo(m, root) ==
    LET owner == IF m.prefix = <<>> THEN <<"$">> ELSE m.prefix[1]
    IN  [owner |-> owner,
         name |-> m.repo_name,
         refstring |-> m.refstring,
         reftype |-> m.reftype,
         sha |-> m.sha,
         local_path |-> root \o <<"/">>
                             \o local_path_component(Replace(owner, ".", "!"),
                                                     m.repo_name, m.refstring),
         remote_path |-> m.remote]

\* POST /tasks: SimpleMessage::from_str, else GitHubMessage::from_str, and
\* GitRepo::from.  <<>> when neither dialect parses.
ParseRepo(b, root) ==
    IF SimpleMessage_from_str(b) # <<>>
    THEN <<SimpleMessage_to_git_repo(SimpleMessage_from_str(b)[1], root)>>
    ELSE IF GitHubMessage_from_str(b) # <<>>
    THEN <<GitHubMessage_to_git_repo(GitHubMessage_from_str(b)[1], root)>>
    ELSE <<>>

\* GitRepo::fully_qualified_branch
fully_qualified_branch(r) == Dotted(r.owner, r.name, r.refstring)

\* ------------------------------------------------------------ POST /tasks

MaxReqs == 2
MaxEvictReqs == 3

\* ServerConfig: checkout_root, and queue_limit, which ServerConfig::from
\* accepts only when it is absent or an integer above 1
CheckoutRoot == <<"/", "c", "o">>
ConfigLimits == {None} \cup {Some(x) : x \in 2 .. MaxLimit}

ENV_INSECURE_KEY == "HOOKSHOT_INSECURE"

\* the values HOOKSHOT_INSECURE is given here: unset, or one of these
EnvValues == {<<>>, <<"true">>, <<"t">>, <<"1">>, <<"0">>, <<"false">>}

\* skip_signature_check: a match on ENV_INSECURE_KEY itself; the environment
\* is not read
skip_signature_check ==
    CASE ENV_INSECURE_KEY \in {"true", "t", "1"} -> TRUE
      [] OTHER -> FALSE

\* The request bodies sent here.  A simple-dialect push of ref `refstring`.
SimplePush(refstring) ==
    Body(TRUE, TRUE,
         ("reftype" :> BranchStr) @@ ("refstring" :> refstring)
         @@ ("remote" :> <<"u">>) @@ ("sha" :> <<"1">>)
         @@ ("repo_name" :> <<"r">>))

\* A GitHub-dialect push of `ref` for owner "$"
GitHubPush(ref) ==
    Body(TRUE, TRUE,
         ("ref" :> ref) @@ ("repository.name" :> <<"r">>) @@ ("after" :> <<"1">>)
         @@ ("repository.owner.name" :> <<"$">>)
         @@ ("repository.ssh_url" :> <<"u">>))

Bodies ==
    <<SimplePush(<<"a", "/", "b">>),
      SimplePush(<<"a", "!", "b">>),
      GitHubPush(RefsStr \o <<"/">> \o HeadsStr \o <<"/">> \o <<"a", "!", "b">>),
      Body(TRUE, TRUE, ("reftype" :> <<"x">>) @@ ("ref" :> <<"x">>)),
      Body(TRUE, FALSE, <<>>),
      Body(FALSE, FALSE, <<>>)>>

\* to_uppercase of a hex string
UpperHex(s) ==
    [i \in DOMAIN s |->
        CASE s[i] = "a" -> "A" [] s[i] = "b" -> "B" [] s[i] = "c" -> "C"
          [] s[i] = "d" -> "D" [] s[i] = "e" -> "E" [] s[i] = "f" -> "F"
          [] OTHER -> s[i]]

\* A header is <<>> (absent) or <<value>>.  The signature a client holding
\* the secret sends for body b:
Signed(b) == <<Signature_fmt(Signature_create("SHA1", b, Secret))>>

\* the same from a client holding another key
MisSigned(b) == <<Signature_fmt(Signature_create("SHA1", b, OtherSecret))>>

\* every header value tried: absent, signed, signed with another key, with
\* another algorithm, for another body, in upper-case hex, and texts with no
\* "=", an unknown algorithm, no hex digits, nothing at all
AllHeaders(b) ==
    {<<>>,
     Signed(b),
     MisSigned(b),
     <<Signature_fmt(Signature_create("SHA256", b, Secret))>>,
     <<Signature_fmt(Signature_create("SHA1", (b % Len(Bodies)) + 1, Secret))>>,
     <<HashNames[AlgIndex("SHA1")] \o <<"=">>
         \o UpperHex(Signature_create("SHA1", b, Secret).hex)>>,
     <<<<"s", "h", "a", "1">>>>,
     <<<<"f", "o", "o", "=", "0", "0">>>>,
     <<<<"s", "h", "a", "1", "=", "z", "z">>>>,
     <<<<>>>>}

\* the representative requests: every body signed in X-Signature, the GitHub
\* push signed in X-Hub-Signature, and the first body with no, two, an
\* unparseable and a mismatching signature
Post(xsig, xhub, b) == [xsig |-> xsig, xhub |-> xhub, body |-> b]

FewRequests ==
    {Post(Signed(b), <<>>, b) : b \in DOMAIN Bodies}
    \cup {Post(<<>>, Signed(3), 3),
          Post(<<>>, <<>>, 1),
          Post(Signed(1), Signed(1), 1),
          Post(<<<<"s", "h", "a", "1">>>>, <<>>, 1),
          Post(MisSigned(1), <<>>, 1)}

\* The characters of the keys, in byte order
ByteOrder ==
    <<"!", "$", "(", "*", "-", ".", "/",
      "0", "1", "2", "3", "4", "5", "6", "7", "8", "9",
      "\\", "_", "a", "b", "c", "d", "e", "f", "g", "h", "i", "j", "k", "l", "m",
      "n", "o", "p", "q", "r", "s", "t", "u", "v", "w", "x", "y", "z">>

Byte(c) == CHOOSE i \in DOMAIN ByteOrder : ByteOrder[i] = c

\* String's Ord, which orders the BTreeMap keys
StrLess(s, t) ==
    \E i \in 1 .. Len(t) :
        /\ \A j \in 1 .. (i - 1) : j <= Len(s) /\ s[j] = t[j]
        /\ (i > Len(s) \/ (i <= Len(s) /\ Byte(s[i]) < Byte(t[i])))

\* The queue keys the bodies lead to, and the number a key has in `Keys`:
\* its rank among them
KeyNames ==
    {fully_qualified_branch(ParseRepo(Bodies[b], CheckoutRoot)[1]) :
        b \in {x \in DOMAIN Bodies : ParseRepo(Bodies[x], CheckoutRoot) # <<>>}}

QueueKey(name) == 1 + Cardinality({n \in KeyNames : StrLess(n, name)})

\* A request: its two signature headers, its body, where its handler is, the
\* response sent (status 0: none yet), the GitRepo and task made for it, and
\* how far the task's run() got with its log.
Request(xsig, xhub, b, pc, status, text, r) ==
    [xsig |-> xsig, xhub |-> xhub, body |-> b, pc |-> pc, status |-> status,
     text |-> text, repo |-> r, task |-> NoTask, run |-> "none"]

Response(status, text) == [status |-> status, text |-> text, repo |-> <<>>]

\* the checks taking X-Signature when both headers are present
post_tasks_checks_first_header(xsig, xhub, b) ==
    LET signature_string == IF xsig # <<>> THEN xsig[1] ELSE xhub[1]
        signature == Signature_from(signature_string)
        r == ParseRepo(Bodies[b], CheckoutRoot)
    IN  IF ~skip_signature_check /\ xsig = <<>> /\ xhub = <<>>
        THEN Response(401, "missing signature")
        ELSE IF ~skip_signature_check /\ signature = <<>>
        THEN Response(401, "could not parse signature")
        ELSE IF ~Bodies[b].utf8
        THEN Response(500, "")
        ELSE IF ~skip_signature_check /\ ~Signature_verify(signature[1], b, Secret)
        THEN Response(401, "signature doesn't match")
        ELSE IF r = <<>>
        THEN Response(400, "could not parse message")
        ELSE [status |-> 0, text |-> "", repo |-> r]

\* POST /tasks up to the payload parse: the response that ends the request,
\* or status 0 and the GitRepo
post_tasks_checks(xsig, xhub, b) ==
    LET signature_string == IF xsig # <<>> THEN xsig[1] ELSE xhub[1]
        signature == Signature_from(signature_string)
        r == ParseRepo(Bodies[b], CheckoutRoot)
    IN  IF ~skip_signature_check /\ xsig = <<>> /\ xhub = <<>>
        THEN Response(401, "missing signature")
        ELSE IF ~skip_signature_check /\ xsig # <<>> /\ xhub # <<>>
        THEN Response(401, "too many signatures")
        ELSE IF ~skip_signature_check /\ signature = <<>>
        THEN Response(401, "could not parse signature")
        ELSE IF ~Bodies[b].utf8
        THEN Response(500, "")
        ELSE IF ~skip_signature_check /\ ~Signature_verify(signature[1], b, Secret)
        THEN Response(401, "signature doesn't match")
        ELSE IF r = <<>>
        THEN Response(400, "could not parse message")
        ELSE [status |-> 0, text |-> "", repo |-> r]

\* File::create: the file exists afterwards and is empty
Create(fs, u) == [x \in DOMAIN fs \cup {u} |-> IF x = u THEN <<>> ELSE fs[x]]

\* A piece written to a log; `over` is what later overwrote its first bytes
Chunk(text) == [text |-> text, over |-> ""]

\* write_all through a handle whose position is the start of the file
WriteAtStart(content, text) ==
    IF content = <<>> THEN <<Chunk(text)>>
    ELSE <<[Head(content) EXCEPT !.over = text]>> \o Tail(content)

\* GET /tasks/:uuid
get_task(u) == IF u \in DOMAIN files THEN 200 ELSE 404

\* the handler creating the log file as soon as it has the uuid
post_tasks_log_first(max, xsig, xhub, b, created) ==
    /\ Len(reqs) < max
    /\ LET c == post_tasks_checks(xsig, xhub, b)
           u == Len(reqs) + 1
       IN  IF ~created
           THEN /\ reqs' = Append(reqs, Request(xsig, xhub, b, "done", 500, "", c.repo))
                /\ UNCHANGED files
           ELSE IF c.status # 0
           THEN /\ reqs' = Append(reqs, Request(xsig, xhub, b, "done", c.status,
                                                c.text, <<>>))
                /\ files' = Create(files, u)
           ELSE /\ reqs' = Append(reqs, Request(xsig, xhub, b, "created", 0, "", c.repo))
                /\ files' = Create(files, u)
    /\ UNCHANGED <<env_insecure, holder, payload, repo, dvars>>
    /\ UNCHANGED vars

\* POST /tasks from the uuid to File::create(logfile_path); `created` is
\* whether the file could be created
post_tasks(max, xsig, xhub, b, created) ==
    /\ Len(reqs) < max
    /\ LET c == post_tasks_checks(xsig, xhub, b)
           u == Len(reqs) + 1
       IN  IF c.status # 0
           THEN /\ reqs' = Append(reqs, Request(xsig, xhub, b, "done", c.status,
                                                c.text, <<>>))
                /\ UNCHANGED files
           ELSE IF ~created
           THEN /\ reqs' = Append(reqs, Request(xsig, xhub, b, "done", 500, "", c.repo))
                /\ UNCHANGED files
           ELSE /\ reqs' = Append(reqs, Request(xsig, xhub, b, "created", 0, "", c.repo))
                /\ files' = Create(files, u)
    /\ UNCHANGED <<env_insecure, holder, payload, repo, dvars>>
    /\ UNCHANGED vars

\* The request a task was made for
ReqOf(t) == CHOOSE u \in DOMAIN reqs : reqs[u].task = t

\* POST /tasks: shared_manager.lock() and ensure_queue(fully_qualified_branch)
post_tasks_lock(u) ==
    /\ reqs[u].pc = "created"
    /\ holder = 0
    /\ ensure_queue(QueueKey(fully_qualified_branch(reqs[u].repo[1])))
    /\ holder' = u
    /\ reqs' = [reqs EXCEPT ![u].pc = "locked"]
    /\ UNCHANGED <<env_insecure, files, payload, repo, dvars>>

\* cancel removing the log of the task it cancels
CancelLogs_unlink(fs) ==
    [x \in {y \in DOMAIN fs :
               ~ \E t \in DOMAIN tasks :
                     tasks'[t].cancels > tasks[t].cancels /\ reqs[y].task = t}
        |-> fs[x]]

\* DeployTask::cancel on the tasks this step evicted: each log is created
\* anew and gets "task cancelled"
CancelLogs(fs) ==
    [x \in DOMAIN fs |->
        IF \E t \in DOMAIN tasks :
               /\ tasks'[t].cancels > tasks[t].cancels
               /\ reqs[x].task = t
        THEN <<Chunk("task cancelled\n")>>
        ELSE fs[x]]

\* the handler going on to its 202 whatever add_task returned
post_tasks_add_ignores_err(u, max) ==
    /\ reqs[u].pc = "locked"
    /\ add_task_push(QueueKey(fully_qualified_branch(reqs[u].repo[1])), max)
    /\ IF mpc'.op = "add_task"
       THEN /\ reqs' = [reqs EXCEPT ![u].pc = "adding", ![u].task = mpc'.task]
            /\ files' = CancelLogs(files)
            /\ UNCHANGED holder
       ELSE /\ reqs' = [reqs EXCEPT ![u].pc = "unlocked"]
            /\ holder' = 0
            /\ UNCHANGED files
    /\ UNCHANGED <<env_insecure, payload, repo, dvars>>

\* POST /tasks: add_task up to its push; Err(_) is answered 503 and the lock
\* released
post_tasks_add(u, max) ==
    /\ reqs[u].pc = "locked"
    /\ add_task_push(QueueKey(fully_qualified_branch(reqs[u].repo[1])), max)
    /\ IF mpc'.op = "add_task"
       THEN /\ reqs' = [reqs EXCEPT ![u].pc = "adding", ![u].task = mpc'.task]
            /\ files' = CancelLogs(files)
            /\ UNCHANGED holder
       ELSE /\ reqs' = [reqs EXCEPT ![u].pc = "done", ![u].status = 503]
            /\ holder' = 0
            /\ UNCHANGED files
    /\ UNCHANGED <<env_insecure, payload, repo, dvars>>

\* POST /tasks: the rest of add_task, and the release of the lock.  A panic
\* inside add_task unwinds the handler with the lock held.
post_tasks_send(u) ==
    /\ reqs[u].pc = "adding"
    /\ add_task_send
    /\ IF result' = "Ok"
       THEN /\ reqs' = [reqs EXCEPT ![u].pc = "unlocked"]
            /\ holder' = 0
       ELSE /\ reqs' = [reqs EXCEPT ![u].pc = "panicked"]
            /\ UNCHANGED holder
    /\ UNCHANGED <<env_insecure, files, payload, repo, dvars>>

\* POST /tasks: logfile.write_all(b"task pending") through the handle that
\* File::create returned, and the 202 response
post_tasks_respond(u) ==
    /\ reqs[u].pc = "unlocked"
    /\ files' = [files EXCEPT ![u] = WriteAtStart(@, "task pending")]
    /\ reqs' = [reqs EXCEPT ![u].pc = "done", ![u].status = 202]
    /\ UNCHANGED <<env_insecure, holder, payload, repo, dvars>>
    /\ UNCHANGED vars

\* DeployTask::run: LogWriter::new (File::create) and what is logged before
\* get_latest
deploy_run_log(w) ==
    /\ workers[w].pc = "running"
    /\ reqs[ReqOf(workers[w].task)].run = "none"
    /\ LET u == ReqOf(workers[w].task)
       IN  /\ files' = [x \in DOMAIN files \cup {u} |->
                           IF x = u
                           THEN <<Chunk("system user"), Chunk("environment"),
                                  Chunk("started")>>
                           ELSE files[x]]
           /\ reqs' = [reqs EXCEPT ![u].run = "logged"]
    /\ UNCHANGED <<env_insecure, holder, payload, repo, dvars>>
    /\ UNCHANGED vars

\* DeployTask::run returns, after the line it logs last
deploy_run_return(w) ==
    /\ workers[w].pc = "running"
    /\ reqs[ReqOf(workers[w].task)].run = "logged"
    /\ run_return(w)
    /\ LET u == ReqOf(workers[w].task)
       IN  /\ files' = [files EXCEPT ![u] = Append(@, Chunk("outcome"))]
           /\ reqs' = [reqs EXCEPT ![u].run = "returned"]
    /\ UNCHANGED <<env_insecure, holder, payload, repo, dvars>>

\* DeployTask::run panics, which it can only after it opened its log
deploy_run_panic(w) ==
    /\ workers[w].pc = "running"
    /\ reqs[ReqOf(workers[w].task)].run = "logged"
    /\ run_panic(w)
    /\ reqs' = [reqs EXCEPT ![ReqOf(workers[w].task)].run = "panicked"]
    /\ UNCHANGED <<env_insecure, files, holder, payload, repo, dvars>>

\* start_server: the manager is shut down after the listener returned, under
\* the same mutex as the handlers
server_shutdown ==
    /\ holder = 0
    /\ shutdown_begin
    /\ UNCHANGED ivars

\* -------------------------------------------------- server specifications

InitServer ==
    /\ limit \in ConfigLimits
    /\ shutdown_lock = FALSE
    /\ stopped = FALSE
    /\ queues = <<>>
    /\ threads = <<>>
    /\ workers = <<>>
    /\ tasks = <<>>
    /\ runlog = [k \in Keys |-> <<>>]
    /\ mpc = Idle
    /\ result = "none"
    /\ sink = 0
    /\ env_insecure \in EnvValues
    /\ reqs = <<>>
    /\ files = <<>>
    /\ holder = 0
    /\ payload = <<>>
    /\ repo = <<>>
    /\ NoDeploy

\* The server's steps after a request passed its checks
ServerSteps(max) ==
    \/ \E u \in DOMAIN reqs : post_tasks_lock(u)
    \/ \E u \in DOMAIN reqs : post_tasks_add(u, max)
    \/ \E u \in DOMAIN reqs : post_tasks_send(u)
    \/ \E u \in DOMAIN reqs : post_tasks_respond(u)
    \/ server_shutdown
    \/ (shutdown_remove) /\ UNCHANGED ivars
    \/ (shutdown_join) /\ UNCHANGED ivars
    \/ (shutdown_send) /\ UNCHANGED ivars
    \/ (\E w \in DOMAIN workers : worker_recv(w)) /\ UNCHANGED ivars
    \/ (\E w \in DOMAIN workers : worker_pop(w)) /\ UNCHANGED ivars
    \/ \E w \in DOMAIN workers : deploy_run_log(w)
    \/ \E w \in DOMAIN workers : deploy_run_return(w)
    \/ \E w \in DOMAIN workers : deploy_run_panic(w)

\* One request, with every header and body tried
NextAdmit ==
    \/ \E b \in DOMAIN Bodies, created \in BOOLEAN :
           \E xsig, xhub \in AllHeaders(b) : post_tasks(1, xsig, xhub, b, created)
    \/ ServerSteps(MaxReqs)

SpecAdmit == InitServer /\ [][NextAdmit]_<<vars, ivars>>

\* MaxReqs requests, each one of the representative requests, on a server
\* started without HOOKSHOT_INSECURE
InitIngress ==
    /\ InitServer
    /\ env_insecure = <<>>

NextIngress ==
    \/ \E q \in FewRequests, created \in BOOLEAN :
           post_tasks(MaxReqs, q.xsig, q.xhub, q.body, created)
    \/ ServerSteps(MaxReqs)

SpecIngress == InitIngress /\ [][NextIngress]_<<vars, ivars>>

\* MaxEvictReqs signed pushes of one ref to a server with a queue limit, so
\* that pending tasks are evicted
InitEvict ==
    /\ InitIngress
    /\ limit # None

NextEvict ==
    \/ \E created \in BOOLEAN : post_tasks(MaxEvictReqs, Signed(1), <<>>, 1, created)
    \/ ServerSteps(MaxEvictReqs)

SpecEvict == InitEvict /\ [][NextEvict]_<<vars, ivars>>

\* The payload parsers alone: one body, in either dialect, whose owner,
\* repository name and ref are any strings of up to MaxStrLen characters
\* drawn from PathChars, given to the parsers once.
MaxStrLen == 2

PathChars == {"a", ".", "/", "\\"}

PathStrings == UNION {[1 .. n -> PathChars] : n \in 0 .. MaxStrLen}

\* a simple-dialect body; `prefix` is <<>> (the field is absent) or <<string>>
SimpleBody(prefix, repo_name, refstring) ==
    Body(TRUE, TRUE,
         (IF prefix = <<>> THEN <<>> ELSE ("prefix" :> prefix[1]))
         @@ ("reftype" :> BranchStr) @@ ("refstring" :> refstring)
         @@ ("remote" :> <<"u">>) @@ ("sha" :> <<"1">>)
         @@ ("repo_name" :> repo_name))

\* a GitHub-dialect body
GitHubBody(owner, repo_name, ref) ==
    Body(TRUE, TRUE,
         ("ref" :> ref) @@ ("repository.name" :> repo_name) @@ ("after" :> <<"1">>)
         @@ ("repository.owner.name" :> owner)
         @@ ("repository.ssh_url" :> <<"u">>))

\* the `ref` values tried: refs/heads/x, refs/tags/x and x on its own
PathRefs ==
    {RefsStr \o <<"/">> \o kind \o <<"/">> \o x : kind \in {HeadsStr, TagsStr},
                                                 x \in PathStrings}
        \cup PathStrings

\* the bodies, in either dialect, whose fields are drawn from `strings`
PathBodies(strings) ==
    {SimpleBody(p, n, r) : p \in {<<>>} \cup {<<x>> : x \in strings},
                           n \in strings, r \in strings}
        \cup {GitHubBody(o, n, r) : o \in strings, n \in strings,
                                    r \in PathRefs}

InitPaths ==
    /\ InitIngress
    /\ limit = None

\* the handler's "attempting to parse message from payload" step, on `payload`
parse_message ==
    /\ payload # <<>>
    /\ repo = <<>>
    /\ repo' = ParseRepo(payload[1], CheckoutRoot)
    /\ UNCHANGED <<vars, env_insecure, reqs, files, holder, payload, dvars>>

\* a request body arrives
read_body ==
    /\ payload = <<>>
    /\ \E b \in PathBodies(PathStrings) : payload' = <<b>>
    /\ UNCHANGED <<vars, env_insecure, reqs, files, holder, repo, dvars>>

NextPaths ==
    \/ read_body
    \/ parse_message

SpecPaths == InitPaths /\ [][NextPaths]_<<vars, ivars>>

\* ------------------------------------------------------------ repo_config
\* A Config is a record; a ConfigMap (BTreeMap<String, Config>) is a function
\* from patterns to Configs; a RepoConfig has `branch` and `tag`, each <<>>
\* (None) or <<ConfigMap>>.

Star == <<"*">>

\* pattern.matches('*').count()
Wildcards(pattern) == Cardinality({i \in DOMAIN pattern : pattern[i] = "*"})

\* String::partial_cmp
StrCmp(s, t) ==
    IF s = t THEN "Equal" ELSE IF StrLess(s, t) THEN "Less" ELSE "Greater"

\* the ordering with the shorter of two patterns first among patterns with
\* as many wildcards
partial_cmp_shorter_first(self, other) ==
    IF self.pattern = Star THEN "Greater"
    ELSE IF other.pattern = Star THEN "Less"
    ELSE IF Wildcards(self.pattern) < Wildcards(other.pattern) THEN "Less"
    ELSE IF Wildcards(self.pattern) > Wildcards(other.pattern) THEN "Greater"
    ELSE IF Len(self.pattern) < Len(other.pattern) THEN "Less"
    ELSE IF Len(self.pattern) > Len(other.pattern) THEN "Greater"
    ELSE StrCmp(self.pattern, other.pattern)

\* impl PartialOrd for Config, which Ord::cmp unwraps
partial_cmp(self, other) ==
    LET self_wildcards == Wildcards(self.pattern)
        other_wildcards == Wildcards(other.pattern)
        self_len == Len(self.pattern)
        other_len == Len(other.pattern)
    IN  IF self.pattern = Star THEN "Greater"
        ELSE IF other.pattern = Star THEN "Less"
        ELSE IF self_wildcards < other_wildcards THEN "Less"
        ELSE IF self_wildcards > other_wildcards THEN "Greater"
        ELSE IF self_wildcards = 0 THEN StrCmp(self.pattern, other.pattern)
        ELSE IF self_len < other_len THEN "Greater"
        ELSE IF self_len > other_len THEN "Less"
        ELSE StrCmp(self.pattern, other.pattern)

\* Vec::sort on a short vector: a stable insertion sort by Ord::cmp
RECURSIVE insert_sorted(_, _)
insert_sorted(v, c) ==
    IF v = <<>> THEN <<c>>
    ELSE IF partial_cmp(c, Head(v)) = "Less" THEN <<c>> \o v
    ELSE <<Head(v)>> \o insert_sorted(Tail(v), c)

RECURSIVE sort(_)
sort(v) ==
    IF v = <<>> THEN <<>>
    ELSE insert_sorted(sort(SubSeq(v, 1, Len(v) - 1)), v[Len(v)])

\* BTreeMap::iter: the entries in the order of their keys
RECURSIVE iter(_)
iter(structure) ==
    IF DOMAIN structure = {} THEN <<>>
    ELSE LET first == CHOOSE k \in DOMAIN structure :
                          \A x \in DOMAIN structure : x = k \/ StrLess(k, x)
         IN  <<structure[first]>>
                 \o iter([k \in DOMAIN structure \ {first} |-> structure[k]])

\* config.pattern.replace("*", ".*?")
RECURSIVE regex_string(_)
regex_string(pattern) ==
    IF pattern = <<>> THEN <<>>
    ELSE (IF Head(pattern) = "*" THEN <<".", "*", "?">> ELSE <<Head(pattern)>>)
             \o regex_string(Tail(pattern))

\* Regex::new(&format!("^{}$", regex_string)) is Err when a group is left
\* open
Regex_new_is_err(re) ==
    Cardinality({i \in DOMAIN re : re[i] = "("})
        # Cardinality({i \in DOMAIN re : re[i] = ")"})

\* Regex::is_match of ^re$ on `name`: ".*?" takes any characters, "." any one
\* character, every other character itself
RECURSIVE is_match(_, _)
is_match(re, name) ==
    IF re = <<>> THEN name = <<>>
    ELSE IF Len(re) >= 3 /\ re[1] = "." /\ re[2] = "*" /\ re[3] = "?"
    THEN \E k \in 0 .. Len(name) :
             is_match(SubSeq(re, 4, Len(re)), SubSeq(name, k + 1, Len(name)))
    ELSE /\ name # <<>>
         /\ re[1] \in {".", Head(name)}
         /\ is_match(Tail(re), Tail(name))

\* RepoConfig::lookup, the loop over the sorted wildcards and what follows it
RECURSIVE lookup_wildcards(_, _, _)
lookup_wildcards(sorted, name, catch_all) ==
    IF sorted = <<>> THEN catch_all
    ELSE IF Regex_new_is_err(regex_string(Head(sorted).pattern)) THEN <<>>
    ELSE IF is_match(regex_string(Head(sorted).pattern), name)
    THEN <<Head(sorted)>>
    ELSE lookup_wildcards(Tail(sorted), name, catch_all)

\* the wildcards vector RepoConfig::lookup collects, before it is sorted
collect_wildcards(structure) ==
    SelectSeq(iter(structure),
              LAMBDA c : c.pattern # Star /\ Wildcards(c.pattern) > 0)

\* RepoConfig::lookup: <<>> is None
lookup(self, group, name) ==
    LET possible == IF group = "branch" THEN self.branch ELSE self.tag
    IN  IF possible = <<>> THEN <<>>
        ELSE IF name \in DOMAIN possible[1] THEN <<possible[1][name]>>
        ELSE lookup_wildcards(sort(collect_wildcards(possible[1])), name,
                              IF Star \in DOMAIN possible[1]
                              THEN <<possible[1][Star]>> ELSE <<>>)

\* A parsed TOML table is a function from keys to values; a value is a
\* string, some other scalar, or a table.
TomlString(v) == [type |-> "string", str |-> v]
TomlInteger == [type |-> "integer"]
TomlTable(t) == [type |-> "table", table |-> t]
EmptyTable == [k \in {} |-> TomlInteger]

\* The checked-out repository: the files VerifiedPath::file finds under the
\* project root, and the targets of its Makefile
ProjectFiles == {"deploy.yml", "inventory"}
MakefileTasks == {"build"}

\* lookup_as_string
lookup_as_string(obj, key) ==
    IF key \notin DOMAIN obj THEN [result |-> "Missing", v |-> ""]
    ELSE IF obj[key].type # "string" THEN [result |-> "WrongType", v |-> ""]
    ELSE [result |-> "Value", v |-> obj[key].str]

Err(error, pattern) == [ok |-> FALSE, error |-> error, pattern |-> pattern]

\* RepoConfig::from_str, the [default] table: the defaults, or the error
from_str_default(root) ==
    LET default == IF "default" \in DOMAIN root /\ root["default"].type = "table"
                   THEN root["default"].table ELSE EmptyTable
        method == lookup_as_string(default, "method")
        task == lookup_as_string(default, "task")
        playbook == lookup_as_string(default, "playbook")
        inventory == lookup_as_string(default, "inventory")
        notify_url == lookup_as_string(default, "notify_url")
    IN  IF \/ method.result = "WrongType"
           \/ method.result = "Value" /\ method.v \notin {"ansible", "makefile", "make"}
        THEN Err("InvalidDefaultMethod", <<>>)
        ELSE IF \/ task.result = "WrongType"
                \/ task.result = "Value" /\ task.v \notin MakefileTasks
        THEN Err("InvalidDefaultMakeTask", <<>>)
        ELSE IF \/ playbook.result = "WrongType"
                \/ playbook.result = "Value" /\ playbook.v \notin ProjectFiles
        THEN Err("InvalidDefaultPlaybook", <<>>)
        ELSE IF \/ inventory.result = "WrongType"
                \/ inventory.result = "Value" /\ inventory.v \notin ProjectFiles
        THEN Err("InvalidDefaultInventory", <<>>)
        ELSE IF notify_url.result = "WrongType"
        THEN Err("InvalidDefaultNotifyUrl", <<>>)
        ELSE [ok |-> TRUE,
              method |-> IF method.result = "Missing" THEN <<>>
                         ELSE IF method.v = "ansible" THEN <<"Ansible">>
                         ELSE <<"Makefile">>,
              task |-> IF task.result = "Missing" THEN <<>> ELSE <<task.v>>,
              playbook |-> IF playbook.result = "Missing" THEN <<>>
                           ELSE <<playbook.v>>,
              inventory |-> IF inventory.result = "Missing" THEN <<>>
                            ELSE <<inventory.v>>,
              notify_url |-> IF notify_url.result = "Missing" THEN <<>>
                             ELSE <<notify_url.v>>]

\* from_str_entry as it would be if a make entry read only its own `task`
from_str_entry_own_task(pattern, entry, default) ==
    IF entry.type # "table" THEN Err("InvalidConfigEntry", pattern)
    ELSE
    LET m == lookup_as_string(entry.table, "method")
        p == lookup_as_string(entry.table, "playbook")
        i == lookup_as_string(entry.table, "inventory")
        n == lookup_as_string(entry.table, "notify_url")
        t == lookup_as_string(entry.table, "task")
        method == IF m.result = "Missing" THEN default.method
                  ELSE IF m.v = "ansible" THEN <<"Ansible">> ELSE <<"Makefile">>
        playbook == IF p.result = "Missing" THEN default.playbook ELSE <<p.v>>
        inventory == IF i.result = "Missing" THEN default.inventory ELSE <<i.v>>
        notify_url == IF n.result = "Missing" THEN default.notify_url ELSE <<n.v>>
        make_task == IF t.result = "Missing" THEN <<>> ELSE <<t.v>>
    IN  IF m.result = "Missing" /\ default.method = <<>>
        THEN Err("MissingMethod", pattern)
        ELSE IF \/ m.result = "WrongType"
                \/ m.result = "Value" /\ m.v \notin {"ansible", "makefile", "make"}
        THEN Err("InvalidMethod", pattern)
        ELSE IF \/ p.result = "WrongType"
                \/ p.result = "Value" /\ p.v \notin ProjectFiles
        THEN Err("InvalidPlaybook", pattern)
        ELSE IF \/ i.result = "WrongType"
                \/ i.result = "Value" /\ i.v \notin ProjectFiles
        THEN Err("InvalidInventory", pattern)
        ELSE IF n.result = "WrongType"
        THEN Err("InvalidNotifyUrl", pattern)
        ELSE IF \/ t.result = "WrongType"
                \/ t.result = "Value" /\ t.v \notin MakefileTasks
        THEN Err("InvalidMakeTask", pattern)
        ELSE IF method = <<"Ansible">> /\ (playbook = <<>> \/ inventory = <<>>)
        THEN Err("InvalidAnsibleConfig", <<>>)
        ELSE IF method = <<"Makefile">> /\ make_task = <<>>
        THEN Err("InvalidMakeTaskConfig", <<>>)
        ELSE [ok |-> TRUE,
              config |->
                  [pattern |-> pattern,
                   method |-> method[1],
                   notifiers |-> IF notify_url = <<>> THEN <<>> ELSE <<notify_url>>,
                   make_task |-> IF method = <<"Makefile">> THEN make_task ELSE <<>>,
                   ansible_task |-> IF method = <<"Ansible">>
                                    THEN <<[playbook |-> playbook[1],
                                            inventory |-> inventory[1]]>>
                                    ELSE <<>>]]

\* RepoConfig::from_str, one [branch.<pattern>] or [tag.<pattern>] entry: the
\* Config, or the error.  The notifier reads the entry's URLs as `notifiers`.
from_str_entry(pattern, entry, default) ==
    IF entry.type # "table" THEN Err("InvalidConfigEntry", pattern)
    ELSE
    LET m == lookup_as_string(entry.table, "method")
        p == lookup_as_string(entry.table, "playbook")
        i == lookup_as_string(entry.table, "inventory")
        n == lookup_as_string(entry.table, "notify_url")
        t == lookup_as_string(entry.table, "task")
        method == IF m.result = "Missing" THEN default.method
                  ELSE IF m.v = "ansible" THEN <<"Ansible">> ELSE <<"Makefile">>
        playbook == IF p.result = "Missing" THEN default.playbook ELSE <<p.v>>
        inventory == IF i.result = "Missing" THEN default.inventory ELSE <<i.v>>
        notify_url == IF n.result = "Missing" THEN default.notify_url ELSE <<n.v>>
        make_task == IF t.result = "Missing" THEN default.task ELSE <<t.v>>
    IN  IF m.result = "Missing" /\ default.method = <<>>
        THEN Err("MissingMethod", pattern)
        ELSE IF \/ m.result = "WrongType"
                \/ m.result = "Value" /\ m.v \notin {"ansible", "makefile", "make"}
        THEN Err("InvalidMethod", pattern)
        ELSE IF \/ p.result = "WrongType"
                \/ p.result = "Value" /\ p.v \notin ProjectFiles
        THEN Err("InvalidPlaybook", pattern)
        ELSE IF \/ i.result = "WrongType"
                \/ i.result = "Value" /\ i.v \notin ProjectFiles
        THEN Err("InvalidInventory", pattern)
        ELSE IF n.result = "WrongType"
        THEN Err("InvalidNotifyUrl", pattern)
        ELSE IF \/ t.result = "WrongType"
                \/ t.result = "Value" /\ t.v \notin MakefileTasks
        THEN Err("InvalidMakeTask", pattern)
        ELSE IF method = <<"Ansible">> /\ (playbook = <<>> \/ inventory = <<>>)
        THEN Err("InvalidAnsibleConfig", <<>>)
        ELSE IF method = <<"Makefile">> /\ make_task = <<>>
        THEN Err("InvalidMakeTaskConfig", <<>>)
        ELSE [ok |-> TRUE,
              config |->
                  [pattern |-> pattern,
                   method |-> method[1],
                   notifiers |-> IF notify_url = <<>> THEN <<>> ELSE <<notify_url>>,
                   make_task |-> IF method = <<"Makefile">> THEN make_task ELSE <<>>,
                   ansible_task |-> IF method = <<"Ansible">>
                                    THEN <<[playbook |-> playbook[1],
                                            inventory |-> inventory[1]]>>
                                    ELSE <<>>]]

\* RepoConfig::from_str, one of the groups "tag" and "branch": its ConfigMap
\* (<<>> when the group is absent), or the error of the first entry, in key
\* order, that has one
from_str_group(root, group_type, default) ==
    IF group_type \notin DOMAIN root THEN [ok |-> TRUE, map |-> <<>>]
    ELSE IF root[group_type].type # "table" THEN Err("InvalidConfigGroup", <<>>)
    ELSE LET group == root[group_type].table
             bad == {p \in DOMAIN group : ~from_str_entry(p, group[p], default).ok}
         IN  IF bad # {}
             THEN LET first == CHOOSE p \in bad :
                                   \A x \in bad : x = p \/ StrLess(p, x)
                  IN  from_str_entry(first, group[first], default)
             ELSE [ok |-> TRUE,
                   map |-> <<[p \in DOMAIN group |->
                                 from_str_entry(p, group[p], default).config]>>]

\* A .hookshot.conf: whether it reads as UTF-8, whether it parses as TOML,
\* and the table it parses to
Document(utf8, parses, root) == [utf8 |-> utf8, parses |-> parses, root |-> root]

\* RepoConfig::from_str: the RepoConfig or the Error
from_str(string) ==
    IF ~string.parses THEN Err("Parse", <<>>)
    ELSE LET default == from_str_default(string.root)
             tag == from_str_group(string.root, "tag", default)
             branch == from_str_group(string.root, "branch", default)
         IN  IF ~default.ok THEN default
             ELSE IF ~tag.ok THEN tag
             ELSE IF ~branch.ok THEN branch
             ELSE [ok |-> TRUE, tag |-> tag.map, branch |-> branch.map]

\* RepoConfig::load of a project root whose .hookshot.conf is `file`: <<>>
\* when there is none, else <<document>>
load(file) ==
    IF file = <<>> THEN Err("FileLoad", <<>>)
    ELSE IF ~file[1].utf8 THEN Err("FileRead", <<>>)
    ELSE from_str(file[1])

\* ------------------------------------------------------------ notifier

TaskStates == <<"Started", "Success", "Failed">>

\* the Message send_message encodes as the request body
Message(task, status) ==
    [status |-> status,
     failed |-> status = "Failed",
     task_id |-> task.id,
     task_url |-> <<task.host, task.id>>,
     owner |-> task.repo.owner,
     reftype |-> task.repo.reftype,
     refstring |-> task.repo.refstring,
     repo |-> task.repo.name,
     sha |-> task.repo.sha]

\* the number that stands for a request body as the data of hmac
MessageData(request_body) ==
    CHOOSE i \in DOMAIN TaskStates : TaskStates[i] = request_body.status

\* get_notifiers: <<>> is None
get_notifiers(task, cfg) ==
    IF lookup(cfg, task.repo.reftype, task.repo.refstring) = <<>> THEN <<>>
    ELSE lookup(cfg, task.repo.reftype, task.repo.refstring)[1].notifiers

\* a send_message that hands the thread the task's host as its key
send_message_host_key(task, cfg, status) ==
    IF get_notifiers(task, cfg) = <<>> THEN senders
    ELSE Append(senders, [status |-> status,
                          request_body |-> Message(task, status),
                          notifiers |-> get_notifiers(task, cfg)[1],
                          secret |-> task.host,
                          next |-> 1])

\* send_message up to thread::spawn: the threads there are after it
send_message(task, cfg, status) ==
    IF get_notifiers(task, cfg) = <<>> THEN senders
    ELSE Append(senders, [status |-> status,
                          request_body |-> Message(task, status),
                          notifiers |-> get_notifiers(task, cfg)[1],
                          secret |-> task.secret,
                          next |-> 1])

\* the thread send_message spawned makes its next POST; whether the request
\* fails changes nothing but a printed line
sender_post(i) ==
    /\ senders[i].next <= Len(senders[i].notifiers)
    /\ LET sig == Signature_create("SHA256", MessageData(senders[i].request_body),
                                   senders[i].secret)
       IN  posts' = Append(posts, [url |-> senders[i].notifiers[senders[i].next],
                                   XHookshotSignature |-> Signature_fmt(sig),
                                   ContentType |-> "json",
                                   body |-> senders[i].request_body,
                                   sender |-> i])
    /\ senders' = [senders EXCEPT ![i].next = @ + 1]
    /\ UNCHANGED <<vars, env_insecure, reqs, files, holder, payload, repo>>
    /\ UNCHANGED <<wildcards, sigrec, git, dpc, toml, config, ref_config,
                   output_result, notified>>

\* ---------------------------------------------------------- DeployTask

\* the DeployTask the handler builds for a GitRepo
DeployTask(r) == [repo |-> r, id |-> 1, host |-> "localhost:1469", secret |-> Secret]

\* the pushes whose tasks are run here: branches a and ab, and tag a
RunRepos ==
    {ParseRepo(SimplePush(<<"a">>), CheckoutRoot)[1],
     ParseRepo(SimplePush(<<"a", "b">>), CheckoutRoot)[1],
     ParseRepo(GitHubPush(RefsStr \o <<"/">> \o TagsStr \o <<"/", "a">>),
               CheckoutRoot)[1]}

\* a Config for `pattern` that runs `make build` and has these notifiers
MakeConfig(pattern, notifiers) ==
    [pattern |-> pattern, method |-> "Makefile", notifiers |-> notifiers,
     make_task |-> <<"build">>, ansible_task |-> <<>>]

RepoConfig(branch, tag) == [ok |-> TRUE, tag |-> tag, branch |-> branch]

\* what RepoConfig::load returns for the repositories deployed here
LoadResults ==
    {Err("FileLoad", <<>>),
     RepoConfig(<<(Star :> MakeConfig(Star, <<>>))>>, <<>>),
     RepoConfig(<<(<<"a", "*">> :> MakeConfig(<<"a", "*">>, <<<<"u1", "u2">>>>))
                  @@ (Star :> MakeConfig(Star, <<<<"u1">>>>))>>, <<>>),
     RepoConfig(<<(<<"b">> :> MakeConfig(<<"b">>, <<>>))>>,
                <<(<<"a">> :> MakeConfig(<<"a">>, <<<<>>>>))>>)}

\* what MakeTask::run and AnsibleTask::run return: Err when the command could
\* not be executed, else its Output, whose status has an exit code unless a
\* signal ended the process
RunnerResults ==
    {[ok |-> FALSE, code |-> <<>>],
     [ok |-> TRUE, code |-> <<0>>],
     [ok |-> TRUE, code |-> <<1>>],
     [ok |-> TRUE, code |-> <<>>]}

\* ExitStatus::success
success(output) == output.code = <<0>>

\* DeployTask::run of some task, up to LogWriter::new
run_open_log ==
    /\ dpc = "idle"
    /\ \E r \in RunRepos, opened \in BOOLEAN :
           /\ repo' = <<r>>
           /\ dpc' = IF opened THEN "logging" ELSE "returned"
    /\ UNCHANGED <<vars, env_insecure, reqs, files, holder, payload>>
    /\ UNCHANGED <<wildcards, sigrec, git, toml, config, ref_config, output_result,
                   notified, senders, posts>>

\* DeployTask::run: repo.get_latest; a CommandError without output makes
\* git_error.output.unwrap() panic
run_get_latest ==
    /\ dpc = "logging"
    /\ \E outcome \in {"ok", "git failed", "git not executed"} :
           dpc' = CASE outcome = "ok" -> "fetched"
                    [] outcome = "git failed" -> "returned"
                    [] outcome = "git not executed" -> "panicked"
    /\ UNCHANGED <<vars, env_insecure, reqs, files, holder, payload, repo>>
    /\ UNCHANGED <<wildcards, sigrec, git, toml, config, ref_config, output_result,
                   notified, senders, posts>>

\* a run that loads the config and leaves out notifier::started
run_load_config_silent ==
    /\ dpc = "fetched"
    /\ \E c \in LoadResults :
           /\ config' = <<c>>
           /\ dpc' = IF c.ok THEN "started" ELSE "returned"
    /\ UNCHANGED <<notified, senders>>
    /\ UNCHANGED <<vars, env_insecure, reqs, files, holder, payload, repo>>
    /\ UNCHANGED <<wildcards, sigrec, git, toml, ref_config, output_result, posts>>

\* DeployTask::run: RepoConfig::load and notifier::started
run_load_config ==
    /\ dpc = "fetched"
    /\ \E c \in LoadResults :
           /\ config' = <<c>>
           /\ IF c.ok
              THEN /\ notified' = Append(notified, "Started")
                   /\ senders' = send_message(DeployTask(repo[1]), c, "Started")
                   /\ dpc' = "started"
              ELSE /\ dpc' = "returned"
                   /\ UNCHANGED <<notified, senders>>
    /\ UNCHANGED <<vars, env_insecure, reqs, files, holder, payload, repo>>
    /\ UNCHANGED <<wildcards, sigrec, git, toml, ref_config, output_result, posts>>

\* DeployTask::run: config.lookup
run_lookup ==
    /\ dpc = "started"
    /\ ref_config' = lookup(config[1], repo[1].reftype, repo[1].refstring)
    /\ dpc' = IF ref_config' = <<>> THEN "returned" ELSE "resolved"
    /\ UNCHANGED <<vars, env_insecure, reqs, files, holder, payload, repo>>
    /\ UNCHANGED <<wildcards, sigrec, git, toml, config, output_result, notified, senders, posts>>

\* DeployTask::run: the method's task is run, if the Config has it
run_task ==
    /\ dpc = "resolved"
    /\ IF \/ ref_config[1].method = "Ansible" /\ ref_config[1].ansible_task = <<>>
          \/ ref_config[1].method = "Makefile" /\ ref_config[1].make_task = <<>>
       THEN /\ dpc' = "returned"
            /\ UNCHANGED output_result
       ELSE /\ \E o \in RunnerResults : output_result' = <<o>>
            /\ dpc' = "ran"
    /\ UNCHANGED <<vars, env_insecure, reqs, files, holder, payload, repo>>
    /\ UNCHANGED <<wildcards, sigrec, git, toml, config, ref_config, notified, senders, posts>>

\* DeployTask::run from `match output_result` to its end
run_finish ==
    /\ dpc = "ran"
    /\ IF ~output_result[1].ok
       THEN UNCHANGED <<notified, senders>>
       ELSE LET status == IF success(output_result[1]) THEN "Success" ELSE "Failed"
            IN  /\ notified' = Append(notified, status)
                /\ senders' = send_message(DeployTask(repo[1]), config[1], status)
    /\ dpc' = "returned"
    /\ UNCHANGED <<vars, env_insecure, reqs, files, holder, payload, repo>>
    /\ UNCHANGED <<wildcards, sigrec, git, toml, config, ref_config, output_result, posts>>

NextRun ==
    \/ run_open_log
    \/ run_get_latest
    \/ run_load_config
    \/ run_lookup
    \/ run_task
    \/ run_finish
    \/ \E i \in DOMAIN senders : sender_post(i)

SpecRun == InitPaths /\ [][NextRun]_<<vars, ivars>>

\* ------------------------------------------------ worker specification
\* One queue and its worker thread, with the DeployTasks it runs: the
\* manager is given MaxRuns tasks for key 1, the worker takes them one after
\* the other, and the thread spawned for each calls DeployTask::run, whose
\* notifier threads outlive it.
MaxRuns == 2

\* at most MaxPosts of the notification POSTs are ever made
MaxPosts == 1

\* the tasks of one queue are pushes of one ref: branch ab
QueueRepo == ParseRepo(SimplePush(<<"a", "b">>), CheckoutRoot)[1]

\* the repository's .hookshot.conf is missing, or it is the one of
\* LoadResults that has notifiers for branch ab
QueueLoads ==
    {c \in LoadResults :
         c.ok => get_notifiers(DeployTask(QueueRepo), c) \notin {<<>>, <<<<>>>>}}

\* worker loop: the spawned thread's task.run() has returned, task_tx.send
\* and join(); the loop goes back to recv.  A join that waited for the
\* notifier threads of the run as well:
deploy_return_joined(w) ==
    /\ dpc = "returned"
    /\ \A i \in DOMAIN senders : senders[i].next > Len(senders[i].notifiers)
    /\ run_return(w)
    /\ dpc' = "idle"
    /\ repo' = <<>>
    /\ config' = <<>>
    /\ ref_config' = <<>>
    /\ output_result' = <<>>
    /\ notified' = <<>>
    /\ UNCHANGED <<env_insecure, reqs, files, holder, payload>>
    /\ UNCHANGED <<wildcards, sigrec, git, toml, senders, posts>>

\* worker loop: the spawned thread's task.run() has returned, task_tx.send
\* and join(); the loop goes back to recv.  The run's locals are gone, the
\* threads it spawned are not.
deploy_return(w) ==
    /\ dpc = "returned"
    /\ run_return(w)
    /\ dpc' = "idle"
    /\ repo' = <<>>
    /\ config' = <<>>
    /\ ref_config' = <<>>
    /\ output_result' = <<>>
    /\ notified' = <<>>
    /\ UNCHANGED <<env_insecure, reqs, files, holder, payload>>
    /\ UNCHANGED <<wildcards, sigrec, git, toml, senders, posts>>

\* worker loop: task.run() panicked in the spawned thread, join() returns
\* the Err, which is dropped
deploy_panic(w) ==
    /\ dpc = "panicked"
    /\ run_panic(w)
    /\ dpc' = "idle"
    /\ repo' = <<>>
    /\ config' = <<>>
    /\ ref_config' = <<>>
    /\ output_result' = <<>>
    /\ notified' = <<>>
    /\ UNCHANGED <<env_insecure, reqs, files, holder, payload>>
    /\ UNCHANGED <<wildcards, sigrec, git, toml, senders, posts>>

\* the steps of DeployTask::run, taken by the thread the worker spawned
deploy_run ==
    /\ \E w \in DOMAIN workers : workers[w].pc = "running"
    /\ \/ run_open_log
       \/ run_get_latest
       \/ run_load_config
       \/ run_lookup
       \/ run_task
       \/ run_finish
    /\ repo' \in {<<>>, <<QueueRepo>>}
    /\ config' \in {<<>>} \cup {<<c>> : c \in QueueLoads}

\* what the worker thread and the thread it spawned do
WorkerSteps ==
    \/ \E w \in DOMAIN workers :
           \/ (worker_recv(w) \/ worker_pop(w)) /\ UNCHANGED ivars
           \/ deploy_return(w)
           \/ deploy_panic(w)
    \/ deploy_run

NextWorker ==
    \/ (ensure_queue(1) \/ add_task_push(1, MaxRuns) \/ add_task_send)
           /\ UNCHANGED ivars
    \/ WorkerSteps
    \/ \E i \in DOMAIN senders : Len(posts) < MaxPosts /\ sender_post(i)

SpecWorker == InitPaths /\ [][NextWorker]_<<vars, ivars>>

\* The worker thread and the threads that call run() are scheduled and the
\* commands a run executes end; nothing is assumed about the notifier
\* threads, whose POSTs may never complete.
SpecWorkerFair == SpecWorker /\ WF_<<vars, ivars>>(WorkerSteps)

\* ------------------------------------------- repo_config specification
\* .hookshot.conf files are loaded and refs looked up in them; the patterns
\* are the strings of 1 .. MaxStrLen characters from PatChars, up to
\* MaxEntries of them in a file.
MaxEntries == 3

PatChars == {"a", "b", "*", "("}

Patterns == UNION {[1 .. n -> PatChars] : n \in 1 .. MaxStrLen}

\* the .hookshot.conf of tests::test_lookup_branch with these patterns
LookupToml(patterns) ==
    Document(TRUE, TRUE,
             ("default" :> TomlTable("method" :> TomlString("make")))
             @@ ("branch" :> TomlTable([p \in patterns |->
                                           TomlTable("task" :> TomlString("build"))])))

ProdWeb == <<"p", "r", "o", "d", "-", "w", "e", "b">>
ProdAny == <<"p", "r", "o", "d", "-", "*">>
AnyWebAny == <<"*", "-", "w", "e", "b", "-", "*">>
ProdDb == <<"p", "r", "o", "d", "-", "d", "b">>
SpiderWebLol == <<"s", "p", "i", "d", "e", "r", "-", "w", "e", "b", "-", "l", "o", "l">>
FeatureX == <<"f", "e", "a", "t", "u", "r", "e", "-", "x">>

\* other files: empty, [default] only, an empty [branch], groups and entries
\* that are no tables, a default that is invalid, an ansible entry, a file
\* that is no TOML
OtherTomls ==
    {Document(TRUE, TRUE, EmptyTable),
     Document(TRUE, TRUE, "default" :> TomlTable("method" :> TomlString("make"))),
     Document(TRUE, TRUE, "branch" :> TomlTable(EmptyTable)),
     Document(TRUE, TRUE, "tag" :> TomlInteger),
     Document(TRUE, TRUE, "tag" :> TomlTable(Star :> TomlInteger)),
     Document(TRUE, TRUE, "default" :> TomlTable("method" :> TomlString("cargo"))),
     Document(TRUE, TRUE, "tag" :> TomlTable(Star :> TomlTable(
         ("method" :> TomlString("ansible")) @@ ("playbook" :> TomlString("deploy.yml"))
         @@ ("inventory" :> TomlString("inventory"))
         @@ ("notify_url" :> TomlString("u1"))))),
     Document(TRUE, FALSE, EmptyTable),
     Document(FALSE, FALSE, EmptyTable)}

\* the table of the fields that are given, each a string
FieldTable(fields) ==
    [k \in {x \in DOMAIN fields : fields[x] # <<>>} |-> TomlString(fields[k][1])]

Optional(values) == {<<>>} \cup {<<v>> : v \in values}

\* files with a [default] and one [branch.a] entry, each giving any of
\* method, task, playbook and inventory
InheritTomls ==
    {Document(TRUE, TRUE,
              ("default" :> TomlTable(FieldTable(d)))
              @@ ("branch" :> TomlTable(<<"a">> :> TomlTable(FieldTable(e))))) :
         d \in [method : Optional({"ansible", "make"}), task : Optional({"build"}),
                playbook : Optional({"deploy.yml"}),
                inventory : Optional({"inventory"})],
         e \in [method : Optional({"ansible", "make"}), task : Optional({"build"}),
                playbook : Optional(ProjectFiles),
                inventory : Optional({"inventory"})]}

\* the files loaded: the lookup fixture with up to MaxEntries of `patterns`
\* and with the patterns of the test, and the other files
Tomls(patterns) ==
    {LookupToml({p, q, r}) : p \in patterns, q \in patterns, r \in patterns}
        \cup {LookupToml({ProdWeb, ProdAny, AnyWebAny, Star})}
        \cup OtherTomls
        \cup InheritTomls

\* the ref names looked up
RefNames ==
    UNION {[1 .. n -> PatChars] : n \in 0 .. MaxStrLen}
        \cup {ProdWeb, ProdDb, SpiderWebLol, FeatureX}

\* RepoConfig::load of a checkout whose .hookshot.conf is any of Tomls, or
\* is missing
conf_load ==
    /\ dpc = "idle"
    /\ \E file \in {<<>>} \cup {<<d>> : d \in Tomls(Patterns)} :
           /\ toml' = file
           /\ config' = <<load(file)>>
    /\ dpc' = "loaded"
    /\ UNCHANGED <<vars, env_insecure, reqs, files, holder, payload, repo>>
    /\ UNCHANGED <<wildcards, sigrec, git, ref_config, output_result, notified, senders, posts>>

\* RepoConfig::lookup of a ref in the loaded configuration; the ref is kept
\* in `repo`
conf_lookup ==
    /\ dpc = "loaded"
    /\ config[1].ok
    /\ \E group \in {"branch", "tag"}, name \in RefNames :
           /\ repo' = <<[reftype |-> group, refstring |-> name]>>
           /\ ref_config' = lookup(config[1], group, name)
    /\ dpc' = "resolved"
    /\ UNCHANGED <<vars, env_insecure, reqs, files, holder, payload>>
    /\ UNCHANGED <<wildcards, sigrec, git, toml, config, output_result, notified, senders, posts>>

NextRepoConfig ==
    \/ conf_load
    \/ conf_lookup

SpecRepoConfig == InitPaths /\ [][NextRepoConfig]_<<vars, ivars>>

\* tests::branch_config_pattern
branch_config_pattern(pattern) ==
    [pattern |-> pattern, method |-> "Makefile", make_task |-> <<>>,
     ansible_task |-> <<>>, notifiers |-> <<>>]

BranchOne == <<"b", "r", "a", "n", "c", "h", "-", "o", "n", "e">>
BranchOneTwo == BranchOne \o <<"-", "t", "w", "o">>
BranchDashAny == <<"b", "r", "a", "n", "c", "h", "-", "*">>
BranchAny == <<"b", "r", "a", "n", "c", "h", "*">>
AnyOneAny == <<"*", "-", "o", "n", "e", "-", "*">>

\* the patterns of tests::test_branch_sorting, in the order it expects
expected_patterns ==
    <<BranchOne, BranchOneTwo, BranchDashAny, BranchAny, AnyOneAny, Star>>

\* the vectors with every element of S once
Orders(S) ==
    {v \in [1 .. Cardinality(S) -> S] : \A i, j \in DOMAIN v : v[i] = v[j] => i = j}

\* the vectors of patterns sorted here: the fixture in every order, and up
\* to MaxEntries different patterns in every order
PatternVectors(patterns) ==
    Orders({expected_patterns[i] : i \in DOMAIN expected_patterns})
        \cup UNION {Orders({p, q, r}) :
                        p \in patterns, q \in patterns, r \in patterns}

\* tests::test_branch_sorting: a vector of Configs is built
branches_make ==
    /\ dpc = "idle"
    /\ \E v \in PatternVectors(Patterns) :
           wildcards' = [i \in DOMAIN v |-> branch_config_pattern(v[i])]
    /\ dpc' = "unsorted"
    /\ UNCHANGED <<vars, env_insecure, reqs, files, holder, payload, repo>>
    /\ UNCHANGED <<sigrec, git, toml, config, ref_config, output_result, notified,
                   senders, posts>>

\* tests::test_branch_sorting: branches.sort()
branches_sort ==
    /\ dpc = "unsorted"
    /\ wildcards' = sort(wildcards)
    /\ dpc' = "sorted"
    /\ UNCHANGED <<vars, env_insecure, reqs, files, holder, payload, repo>>
    /\ UNCHANGED <<sigrec, git, toml, config, ref_config, output_result, notified,
                   senders, posts>>

NextSort ==
    \/ branches_make
    \/ branches_sort

SpecSort == InitPaths /\ [][NextSort]_<<vars, ivars>>

\* --------------------------------------------- signature specification
\* The data signed are the indices 1 .. MaxData (hmac tells them all apart)
MaxData == 7

SigKeys == {Secret, OtherSecret}

\* texts that no create() produced: upper-case hex, no "=", an unknown
\* algorithm, no hex digits, two "=", nothing
SigStrings ==
    {HashNames[AlgIndex("SHA1")] \o <<"=">>
         \o UpperHex(Signature_create("SHA1", 1, Secret).hex),
     HashNames[AlgIndex("SHA256")] \o <<"=">>
         \o UpperHex(Signature_create("SHA256", 2, OtherSecret).hex),
     <<"s", "h", "a", "1">>,
     <<"f", "o", "o", "=", "0", "0">>,
     <<"s", "h", "a", "1", "=", "z", "z">>,
     <<"s", "h", "a", "1", "=", "0", "0", "=", "0", "0">>,
     <<"=", "0", "0">>,
     <<>>}

SigRec(sig1, data, key, sigstring) ==
    [sig1 |-> sig1, data |-> data, key |-> key, sigstring |-> sigstring,
     sig2 |-> <<>>, vdata |-> 0, vkey |-> "", verified |-> <<>>]

SigUnchanged ==
    /\ UNCHANGED <<vars, env_insecure, reqs, files, holder, payload, repo>>
    /\ UNCHANGED <<toml, config, ref_config, output_result, notified,
                   senders, posts, wildcards, git>>

\* tests::test_equality: let sig1 = Signature::create(alg, data, key)
sig_create ==
    /\ dpc = "idle"
    /\ \E i \in DOMAIN HashTypes, data \in 1 .. MaxData, key \in SigKeys :
           sigrec' = <<SigRec(<<Signature_create(HashTypes[i], data, key)>>,
                              data, key, <<>>)>>
    /\ dpc' = "created"
    /\ SigUnchanged

\* sig1.to_string()
sig_to_string ==
    /\ dpc = "created"
    /\ sigrec' = <<[sigrec[1] EXCEPT
                       !.sigstring = <<Signature_fmt(sigrec[1].sig1[1])>>]>>
    /\ dpc' = "formatted"
    /\ SigUnchanged

\* a sigstring that comes from elsewhere
sig_string ==
    /\ dpc = "idle"
    /\ \E s \in SigStrings : sigrec' = <<SigRec(<<>>, 0, "", <<s>>)>>
    /\ dpc' = "formatted"
    /\ SigUnchanged

\* let sig2 = Signature::from(sigstring)
sig_from ==
    /\ dpc = "formatted"
    /\ sigrec' = <<[sigrec[1] EXCEPT
                       !.sig2 = Signature_from(sigrec[1].sigstring[1])]>>
    /\ dpc' = "parsed"
    /\ SigUnchanged

\* sig2.unwrap().verify(data, key)
sig_verify ==
    /\ dpc = "parsed"
    /\ sigrec[1].sig2 # <<>>
    /\ \E data \in 1 .. MaxData, key \in SigKeys :
           sigrec' = <<[sigrec[1] EXCEPT
                           !.vdata = data,
                           !.vkey = key,
                           !.verified =
                               <<Signature_verify(sigrec[1].sig2[1], data, key)>>]>>
    /\ dpc' = "verified"
    /\ SigUnchanged

NextSig ==
    \/ sig_create
    \/ sig_to_string
    \/ sig_string
    \/ sig_from
    \/ sig_verify

SpecSig == InitPaths /\ [][NextSig]_<<vars, ivars>>

\* ------------------------------------------------------- server_config
\* toml::Value::Integer
TomlIntegerValue(v) == [type |-> "integer", int |-> v]

\* lookup_as_integer; obj maps the keys it has to their values
lookup_as_integer(obj, key) ==
    IF key \notin DOMAIN obj THEN [kind |-> "Missing", v |-> 0]
    ELSE IF obj[key].type # "integer" THEN [kind |-> "WrongType", v |-> 0]
    ELSE [kind |-> "IntegerValue", v |-> obj[key].int]

\* The [config] table of tests::test_environments, whose other keys are all
\* valid, with its queue_limit line left out or carrying `value`
ServerToml(value) ==
    IF value = <<>> THEN <<>> ELSE ("queue_limit" :> value[1])

QueueLimitValues ==
    {<<>>, <<TomlString(<<"a">>)>>}
    \cup {<<TomlIntegerValue(v)>> : v \in (0 - 1) .. MaxLimit}

\* a from that takes every positive queue_limit
ServerConfig_from_positive(config_table) ==
    LET q == lookup_as_integer(config_table, "queue_limit")
    IN  IF q.kind = "Missing"
        THEN [ok |-> TRUE, queue_limit |-> None, error |-> ""]
        ELSE IF q.kind = "IntegerValue" /\ q.v > 0
        THEN [ok |-> TRUE, queue_limit |-> Some(q.v), error |-> ""]
        ELSE [ok |-> FALSE, queue_limit |-> None, error |-> "InvalidQueueLimit"]

\* ServerConfig::from, from the queue_limit lookup on
ServerConfig_from(config_table) ==
    LET q == lookup_as_integer(config_table, "queue_limit")
    IN  IF q.kind = "Missing"
        THEN [ok |-> TRUE, queue_limit |-> None, error |-> ""]
        ELSE IF q.kind = "IntegerValue" /\ q.v > 1
        THEN [ok |-> TRUE, queue_limit |-> Some(q.v), error |-> ""]
        ELSE [ok |-> FALSE, queue_limit |-> None, error |-> "InvalidQueueLimit"]

\* let config = ServerConfig::from(&toml)
server_config_from ==
    /\ dpc = "idle"
    /\ \E value \in QueueLimitValues :
           /\ toml' = <<ServerToml(value)>>
           /\ config' = <<ServerConfig_from(ServerToml(value))>>
    /\ dpc' = "configured"
    /\ UNCHANGED <<vars, env_insecure, reqs, files, holder, payload, repo>>
    /\ UNCHANGED <<wildcards, sigrec, git, ref_config, output_result, notified,
                   senders, posts>>

\* start_server(config): TaskManager::new(config.queue_limit)
start_server ==
    /\ dpc = "configured"
    /\ config[1].ok
    /\ limit' = config[1].queue_limit
    /\ dpc' = "serving"
    /\ UNCHANGED <<shutdown_lock, stopped, queues, threads, workers, tasks,
                   runlog, mpc, result, sink>>
    /\ UNCHANGED <<env_insecure, reqs, files, holder, payload, repo>>
    /\ UNCHANGED <<wildcards, sigrec, git, toml, config, ref_config, output_result,
                   notified, senders, posts>>

\* a started server's manager takes tasks on one queue
NextServerConfig ==
    \/ server_config_from
    \/ start_server
    \/ (dpc = "serving" /\ ensure_queue(1)) /\ UNCHANGED ivars
    \/ (dpc = "serving" /\ add_task_push(1, MaxTasks)) /\ UNCHANGED ivars
    \/ (dpc = "serving" /\ add_task_send) /\ UNCHANGED ivars
    \/ (\E w \in DOMAIN workers : worker_recv(w)) /\ UNCHANGED ivars
    \/ (\E w \in DOMAIN workers : worker_pop(w)) /\ UNCHANGED ivars
    \/ (\E w \in DOMAIN workers : run_return(w)) /\ UNCHANGED ivars

SpecServerConfig == InitPaths /\ [][NextServerConfig]_<<vars, ivars>>

\* -------------------------------------------------------------------- git
\* get_latest is called at most MaxCalls times on one GitRepo
MaxCalls == 2

\* What Command::output() gave: the process ran and exited with 0, ran and
\* exited otherwise, or could not be executed
CommandOutcomes == {"ok", "failed", "not executed"}

\* A git command: its first argument, whether it was given
\* current_dir(local_path), and its outcome
GitCommand(arg, in_local_path, outcome) ==
    [arg |-> arg, current_dir |-> in_local_path, outcome |-> outcome]

\* CommandError; output is <<>> (None) or <<"output">>
CommandError(desc, output) == [ok |-> FALSE, desc |-> desc, output |-> output]

GitOk == [ok |-> TRUE, desc |-> "", output |-> <<"output">>]

\* the result of a git command with the given outcome
CommandResult(outcome, desc) ==
    CASE outcome = "ok" -> GitOk
      [] outcome = "failed" -> CommandError(desc, <<"output">>)
      [] outcome = "not executed" ->
             CommandError("failed to execute process, see detail", <<>>)

\* GitRepo::get_latest is called; the first call finds local_path a
\* directory or not
git_get_latest ==
    /\ git.pc = "idle"
    /\ Len(git.results) < MaxCalls
    /\ \E exists \in (IF git.results = <<>> THEN BOOLEAN ELSE {git.exists}) :
           git' = [git EXCEPT !.exists = exists, !.pc = "ensure_cloned"]
    /\ UNCHANGED <<vars, env_insecure, reqs, files, holder, payload, repo>>
    /\ UNCHANGED <<dpc, toml, config, ref_config, output_result, notified,
                   senders, posts, wildcards, sigrec>>

\* an ensure_cloned that clones whether or not the directory exists
git_ensure_cloned_always ==
    /\ git.pc = "ensure_cloned"
    /\ \E outcome \in CommandOutcomes, left \in BOOLEAN :
           git' = [git EXCEPT
                      !.cmds = Append(@, GitCommand("clone", FALSE, outcome)),
                      !.exists = CASE outcome = "ok" -> TRUE
                                   [] outcome = "failed" -> left
                                   [] OTHER -> @,
                      !.pc = IF outcome = "ok" THEN "fetch" ELSE "idle",
                      !.results =
                          IF outcome = "ok" THEN @
                          ELSE Append(@, CommandResult(outcome, "git clone failed"))]
    /\ UNCHANGED <<vars, env_insecure, reqs, files, holder, payload, repo>>
    /\ UNCHANGED <<dpc, toml, config, ref_config, output_result, notified,
                   senders, posts, wildcards, sigrec>>

\* GitRepo::ensure_cloned inside fetch, with GitRepo::clone: git clone is run
\* only if local_path is no directory; a clone that failed may or may not
\* have left the directory behind
git_ensure_cloned ==
    /\ git.pc = "ensure_cloned"
    /\ IF git.exists
       THEN git' = [git EXCEPT !.pc = "fetch"]
       ELSE \E outcome \in CommandOutcomes, left \in BOOLEAN :
                git' = [git EXCEPT
                           !.cmds = Append(@, GitCommand("clone", FALSE, outcome)),
                           !.exists = CASE outcome = "ok" -> TRUE
                                        [] outcome = "failed" -> left
                                        [] OTHER -> @,
                           !.pc = IF outcome = "ok" THEN "fetch" ELSE "idle",
                           !.results =
                               IF outcome = "ok" THEN @
                               ELSE Append(@, CommandResult(outcome,
                                                            "git clone failed"))]
    /\ UNCHANGED <<vars, env_insecure, reqs, files, holder, payload, repo>>
    /\ UNCHANGED <<dpc, toml, config, ref_config, output_result, notified,
                   senders, posts, wildcards, sigrec>>

\* GitRepo::fetch after ensure_cloned: git fetch --tags in local_path
git_fetch ==
    /\ git.pc = "fetch"
    /\ \E outcome \in CommandOutcomes :
           git' = [git EXCEPT
                      !.cmds = Append(@, GitCommand("fetch", TRUE, outcome)),
                      !.pc = IF outcome = "ok" THEN "reset" ELSE "idle",
                      !.results =
                          IF outcome = "ok" THEN @
                          ELSE Append(@, CommandResult(outcome, "git fetch failed"))]
    /\ UNCHANGED <<vars, env_insecure, reqs, files, holder, payload, repo>>
    /\ UNCHANGED <<dpc, toml, config, ref_config, output_result, notified,
                   senders, posts, wildcards, sigrec>>

\* GitRepo::get_latest after fetch: git reset --hard <sha> in local_path
git_reset ==
    /\ git.pc = "reset"
    /\ \E outcome \in CommandOutcomes :
           git' = [git EXCEPT
                      !.cmds = Append(@, GitCommand("reset", TRUE, outcome)),
                      !.pc = "idle",
                      !.results = Append(@, CommandResult(outcome, "git reset failed"))]
    /\ UNCHANGED <<vars, env_insecure, reqs, files, holder, payload, repo>>
    /\ UNCHANGED <<dpc, toml, config, ref_config, output_result, notified,
                   senders, posts, wildcards, sigrec>>

NextGit ==
    \/ git_get_latest
    \/ git_ensure_cloned
    \/ git_fetch
    \/ git_reset

SpecGit == InitPaths /\ [][NextGit]_<<vars, ivars>>

\* ----------------------------------------------------------------- claims

IsPrefix(s, t) == Len(s) <= Len(t) /\ \A i \in 1 .. Len(s) : s[i] = t[i]

Increasing(s) == \A i, j \in 1 .. Len(s) : i < j => s[i] < s[j]

InSeq(x, s) == \E i \in 1 .. Len(s) : s[i] = x

\* The tasks handed to push_task for `key`, in the order of the add_task calls
RECURSIVE IdsFrom(_, _)
IdsFrom(key, i) ==
    IF i > Len(tasks) THEN <<>>
    ELSE (IF tasks[i].key = key THEN <<i>> ELSE <<>>) \o IdsFrom(key, i + 1)

RunningTasks(key) ==
    {t \in DOMAIN tasks : tasks[t].key = key /\ tasks[t].status = "running"}

RunningWorkers(key) ==
    {w \in DOMAIN workers : workers[w].key = key /\ workers[w].pc = "running"}

\* C1: with no limit, the run() calls of each queue happen in exactly the
\* order in which add_task admitted the tasks: the tasks started so far are
\* the first tasks admitted to the queue, in admission order.
C1_FifoOrder ==
    ~limit.some => \A k \in Keys : IsPrefix(runlog[k], IdsFrom(k, 1))

\* Three tasks of one queue were run, the later ones admitted while the
\* first was inside run().
C1_Witness ==
    /\ ~limit.some
    /\ \E k \in Keys : Len(runlog[k]) = 3
    /\ \E t \in DOMAIN tasks : tasks[t].during # NoTask

\* C2: at most one task of a queue key is inside run() at any time, and a
\* task of a queue is started (popped and run) only when no task of that
\* queue is inside run().
C2_SerialPerQueue ==
    [][\A k \in Keys :
          /\ Cardinality(RunningTasks(k)') <= 1
          /\ Cardinality(RunningWorkers(k)') <= 1
          /\ runlog'[k] # runlog[k] => RunningTasks(k) = {}]_vars

\* A task is inside run() while another task of its queue is pending and
\* its wake-up is waiting in the worker's channel.
C2_Witness ==
    \E w \in DOMAIN workers :
        /\ workers[w].pc = "running"
        /\ workers[w].wake > 0
        /\ queues[workers[w].key] # <<>>

\* C3: with a limit L, no queue ever holds more than L pending tasks.
C3_BoundedQueue ==
    limit.some => \A k \in DOMAIN queues : Len(queues[k]) <= limit.v

\* A queue is full (two pending tasks under limit 2) after an eviction.
C3_Witness ==
    /\ limit = Some(2)
    /\ \E k \in DOMAIN queues : Len(queues[k]) = 2
    /\ \E t \in DOMAIN tasks : tasks[t].status = "cancelled"

\* C4: cancel() is invoked only by an add_task on a full queue, there on
\* exactly the oldest pending task of that queue, which leaves the queue
\* and makes room for the newcomer at its end; a task is cancelled at most
\* once, a cancelled task is never run and a task that has started running
\* is never cancelled.
C4_EvictsOldestPending ==
    [][/\ (\E t \in DOMAIN tasks : tasks'[t].cancels # tasks[t].cancels) =>
              /\ Len(tasks') = Len(tasks) + 1
              /\ limit.some
              /\ LET n == Len(tasks')
                     k == tasks'[n].key
                 IN  /\ Len(queues[k]) = limit.v
                     /\ queues'[k] = Append(Tail(queues[k]), n)
                     /\ tasks[Head(queues[k])].status = "pending"
                     /\ \A t \in DOMAIN tasks :
                            tasks'[t].cancels =
                                tasks[t].cancels + (IF t = Head(queues[k]) THEN 1 ELSE 0)
       /\ (/\ Len(tasks') = Len(tasks) + 1
           /\ limit.some /\ limit.v >= 1
           /\ Len(queues[tasks'[Len(tasks')].key]) = limit.v) =>
              LET n == Len(tasks')
                  k == tasks'[n].key
              IN  /\ tasks'[Head(queues[k])].cancels = 1
                  /\ queues'[k] = Append(Tail(queues[k]), n)
       /\ \A t \in DOMAIN tasks' :
              /\ tasks'[t].cancels <= 1
              /\ tasks'[t].cancels = 1 <=> tasks'[t].status = "cancelled"
              /\ tasks'[t].cancels = 1 => ~InSeq(t, runlog'[tasks'[t].key])
              /\ InSeq(t, runlog'[tasks'[t].key]) => tasks'[t].cancels = 0]_vars

\* Under limit 2 the older of two pending tasks was evicted and the newer
\* one was kept.
C4_Witness ==
    /\ limit = Some(2)
    /\ \E c, p \in DOMAIN tasks :
           /\ c < p
           /\ tasks[c].key = tasks[p].key
           /\ tasks[c].status = "cancelled"
           /\ tasks[p].status \in {"pending", "running"}
           /\ Len(queues[tasks[c].key]) = 2

\* All five tasks of the test were submitted and the queue has drained: the
\* manager call has returned and every worker is back at recv() with no
\* wake-up left.
Done5 ==
    /\ Len(tasks) = FiveTasks
    /\ mpc = Idle
    /\ \A w \in DOMAIN workers : workers[w].pc = "recv" /\ workers[w].wake = 0

\* C5 as stated: with limit 1, five tasks submitted in order to one queue
\* leave the buffer "15" (tasks 1 and 5 ran, in that order, and 2, 3, 4 were
\* evicted), however the worker's steps interleave with the submissions.
C5_AlwaysOneFive ==
    Done5 =>
        /\ runlog[1] = <<1, 5>>
        /\ \A t \in {2, 3, 4} : tasks[t].status = "cancelled"

\* C5, amended: with limit 1, five tasks submitted in order to one queue
\* leave, once the queue has drained, a buffer that is an increasing
\* selection of the five ending with task 5; every task either ran or was
\* cancelled exactly once without running; and the buffer is exactly "15",
\* with 2, 3, 4 evicted, when task 1 was inside run() at each of the four
\* later submissions.
C5_OneFiveWhenFirstStillRuns ==
    Done5 =>
        /\ queues[1] = <<>>
        /\ Increasing(runlog[1])
        /\ runlog[1] # <<>> /\ runlog[1][Len(runlog[1])] = FiveTasks
        /\ \A t \in DOMAIN tasks :
               \/ InSeq(t, runlog[1]) /\ tasks[t].status = "completed"
                                      /\ tasks[t].cancels = 0
               \/ ~InSeq(t, runlog[1]) /\ tasks[t].status = "cancelled"
                                       /\ tasks[t].cancels = 1
        /\ (\A t \in 2 .. FiveTasks : tasks[t].during = 1) =>
               /\ runlog[1] = <<1, 5>>
               /\ \A t \in {2, 3, 4} : tasks[t].status = "cancelled"

\* The test's outcome: tasks 1 and 5 ran, 2, 3 and 4 were evicted while
\* task 1 was running.
C5_Witness ==
    /\ Done5
    /\ runlog[1] = <<1, 5>>
    /\ \A t \in 2 .. FiveTasks : tasks[t].during = 1

\* C6: while the manager is stopped (from shutdown() until restart()), an
\* add_task call can only return Err(Shutdown), and no step appends a task
\* to a queue, hands a task to push_task, cancels a task or sends a wake-up.
C6_ShutdownRejectsAddTask ==
    [][(stopped /\ stopped') =>
          /\ result' # result => result' = "Shutdown"
          /\ Len(tasks') = Len(tasks)
          /\ \A t \in DOMAIN tasks : tasks'[t].cancels = tasks[t].cancels
          /\ \A k \in DOMAIN queues :
                 k \in DOMAIN queues' /\ Len(queues'[k]) <= Len(queues[k])
          /\ \A w \in DOMAIN workers : workers'[w].wake <= workers[w].wake]_vars

\* An add_task call was rejected with Shutdown after a shutdown() that left
\* a queue behind, and the shutdown has returned.
C6_Witness ==
    /\ stopped
    /\ mpc = Idle
    /\ result = "Shutdown"
    /\ DOMAIN queues # {}
    /\ sink = 1

AllExited == \A w \in DOMAIN workers : workers[w].pc = "exited"

NoneRunning == \A t \in DOMAIN tasks : tasks[t].status # "running"

\* C7: a task inside run() leaves run() only by run() returning or
\* aborting, also while shutdown() is in progress; the shutdown sink gets a
\* unit only from a returning shutdown() call, exactly one per call of a
\* manager built with a sink, and at that moment every worker thread has
\* exited and no task is running.
C7_ShutdownDrain ==
    [][/\ sink' # sink =>
              /\ sink' = sink + 1
              /\ mpc.op = "shutdown" /\ mpc' = Idle
              /\ AllExited /\ AllExited'
              /\ NoneRunning /\ NoneRunning'
       /\ (mpc.op = "shutdown" /\ mpc' = Idle /\ shutdown_lock) => sink' = sink + 1
       /\ \A t \in DOMAIN tasks :
              tasks[t].status = "running" =>
                  tasks'[t].status \in {"running", "completed", "panicked"}]_vars

\* shutdown() is blocked in join() on a worker whose task is inside run().
C7_Witness ==
    /\ mpc.op = "shutdown"
    /\ mpc.joining # 0
    /\ workers[mpc.joining].pc = "running"
    /\ shutdown_lock

\* C8 as stated: once shutdown() has dropped a worker's wake-up Sender, the
\* worker takes no further task: from recv() it does not go on to pop.
C8_NoTaskStartedAfterShutdown ==
    [][\A w \in DOMAIN workers :
          (~workers[w].tx /\ workers[w].pc = "recv") => workers'[w].pc # "woken"]_vars

\* C9 as stated: restart() after shutdown() leaves every existing queue key
\* with a live worker in the thread map.
C9_RestartStartsWorkers ==
    [][(stopped /\ ~stopped') =>
          \A k \in DOMAIN queues' :
              /\ k \in DOMAIN threads'
              /\ workers'[threads'[k]].pc # "exited"]_vars

\* C10: the receiver of an add_task that returned Ok gets at most one value;
\* it has got exactly one, the task as run() left it, exactly when the task
\* has run to completion, and none while the task is pending or running, or
\* when it was evicted, dropped or its run() aborted.
C10_ResultDelivery ==
    \A t \in DOMAIN tasks :
        /\ Len(tasks[t].recvd) <= 1
        /\ tasks[t].res = "Ok" =>
               /\ tasks[t].status = "completed" <=> tasks[t].recvd = <<"mutated">>
               /\ tasks[t].status # "completed" => tasks[t].recvd = <<>>
               /\ tasks[t].status = "completed" => tasks[t].state = "mutated"

\* One task completed and was delivered, one was evicted and one aborted.
C10_Witness ==
    \E a, b, c \in DOMAIN tasks :
        /\ tasks[a].res = "Ok" /\ tasks[b].res = "Ok" /\ tasks[c].res = "Ok"
        /\ tasks[a].status = "completed" /\ tasks[a].recvd = <<"mutated">>
        /\ tasks[b].status = "cancelled"
        /\ tasks[c].status = "panicked"

\* A worker whose task changes to "panicked" in this step
Panicking(w) ==
    /\ workers[w].pc = "running"
    /\ tasks'[workers[w].task].status = "panicked"

\* C11: when a task's run() panics, the worker that ran it is back at its
\* recv with its channel and wake-ups intact, its queue and every other worker
\* are untouched, and the key still maps to that worker; a worker only ever
\* exits after its Sender was dropped, and the tasks of a queue keep being
\* started in submission order.
C11_FailureIsolation ==
    [][/\ \A w \in DOMAIN workers :
            Panicking(w) =>
                /\ workers'[w] = [workers[w] EXCEPT !.pc = "recv", !.task = NoTask]
                /\ \A v \in DOMAIN workers : v # w => workers'[v] = workers[v]
                /\ DOMAIN workers' = DOMAIN workers
                /\ queues' = queues
                /\ threads' = threads
                /\ \A t \in DOMAIN tasks :
                       t # workers[w].task => tasks'[t] = tasks[t]
       /\ \A w \in DOMAIN workers' : workers'[w].pc = "exited" => ~workers'[w].tx
       /\ \A k \in Keys : Increasing(runlog'[k])]_vars

\* a task panicked and a later task of the same queue was run to completion
\* by the same worker, while the other queue's worker exists as well
C11_Witness ==
    \E t, u \in DOMAIN tasks :
        /\ tasks[t].status = "panicked"
        /\ tasks[u].status = "completed"
        /\ tasks[u].key = tasks[t].key
        /\ t < u
        /\ \E i, j \in 1 .. Len(runlog[tasks[t].key]) :
               i < j /\ runlog[tasks[t].key][i] = t /\ runlog[tasks[t].key][j] = u
        /\ Len(workers) = 2
        /\ workers[1].key # workers[2].key

\* Another queue's worker is inside run()
OtherQueueRuns(w) ==
    \E v \in DOMAIN workers :
        workers[v].pc = "running" /\ workers[v].key # workers[w].key

\* C12: while a task of another queue is inside run(), a worker with a
\* buffered wake-up can still receive it, a woken worker can still pop, and
\* when its queue holds a pending task that pop starts the task; the wake-up
\* send of an add_task in progress is never held back either.
C12_CrossQueueIndependence ==
    /\ \A w \in DOMAIN workers :
           OtherQueueRuns(w) =>
               /\ (workers[w].pc = "recv" /\ workers[w].wake > 0)
                      => ENABLED worker_recv(w)
               /\ (workers[w].pc = "woken" /\ queues[workers[w].key] # <<>>)
                      => ENABLED (worker_pop(w) /\ workers'[w].pc = "running")
    /\ (mpc.op = "add_task" /\ mpc.key \in DOMAIN threads) => ENABLED add_task_send

\* tasks of two different queues are inside run() at the same time
C12_Witness ==
    \E v, w \in DOMAIN workers :
        /\ workers[v].key # workers[w].key
        /\ workers[v].pc = "running"
        /\ workers[w].pc = "running"
        /\ tasks[workers[v].task].key # tasks[workers[w].task].key

\* The workers of a key that have not exited
LiveWorkers(key) ==
    {w \in DOMAIN workers : workers[w].key = key /\ workers[w].pc # "exited"}

\* C13: a step that creates the queue of a key creates it empty and spawns
\* exactly one worker, for that key, which the thread map then holds;
\* ensure_queue on a key that has a queue can change nothing; no key ever
\* has more than one worker.
C13_EnsureQueueIdempotent ==
    [][/\ \A k \in Keys :
            (k \notin DOMAIN queues /\ k \in DOMAIN queues') =>
                /\ queues'[k] = <<>>
                /\ \A j \in DOMAIN queues : queues'[j] = queues[j]
                /\ workers' = Append(workers, NewWorker(k))
                /\ threads' = threads @@ (k :> Len(workers'))
       /\ \A k \in DOMAIN queues : ~ ENABLED (ensure_queue(k) /\ vars' # vars)
       /\ \A k \in Keys : Cardinality(LiveWorkers(k)) <= 1]_vars

\* The one signature header of a request that has exactly one
OneHeader(q) == (q.xsig = <<>>) # (q.xhub = <<>>)
TheHeader(q) == IF q.xsig # <<>> THEN q.xsig[1] ELSE q.xhub[1]

\* The request had exactly one signature header, which parsed and verified
\* against the body and the server's secret
Verified(q) ==
    /\ OneHeader(q)
    /\ Signature_from(TheHeader(q)) # <<>>
    /\ Signature_verify(Signature_from(TheHeader(q))[1], q.body, Secret)

Rejected(q, status, text) == q.pc = "done" /\ q.status = status /\ q.text = text

RejectedNow(u) ==
    /\ reqs'[u].status \in {400, 401}
    /\ (u \in DOMAIN reqs => reqs[u].status \notin {400, 401})

\* C15: the step that answers a request 401 or 400 changes no log file, no
\* queue, no worker and no task and leaves the manager's lock alone; a
\* request answered 401 or 400 has no log file and no task, now or later.
C15_RejectionLeavesNoTrace ==
    [][/\ \A u \in DOMAIN reqs' :
            RejectedNow(u) =>
                /\ files' = files
                /\ queues' = queues
                /\ threads' = threads
                /\ workers' = workers
                /\ tasks' = tasks
                /\ mpc' = mpc
                /\ holder' = holder
       /\ \A u \in DOMAIN reqs' :
            reqs'[u].status \in {400, 401} =>
                /\ u \notin DOMAIN files'
                /\ reqs'[u].task = NoTask
                /\ reqs'[u].pc = "done"]_<<vars, ivars>>

\* a request was answered 401 or 400 while an earlier request's task was
\* pending in its queue and had its log
C15_Witness ==
    \E u, v \in DOMAIN reqs :
        /\ reqs[u].status \in {400, 401}
        /\ reqs[v].task # NoTask
        /\ tasks[reqs[v].task].status = "pending"
        /\ v \in DOMAIN files
        /\ v < u

\* HOOKSHOT_INSECURE has one of the values that ask for insecure mode
InsecureAsked == env_insecure \in {<<"true">>, <<"t">>, <<"1">>}

\* C16: with HOOKSHOT_INSECURE set to "true", "t" or "1" a request with no
\* signature header and a parseable body is not rejected for its signature
\* (it is on its way to 202, or answered 202, or 500/503 for a log file or
\* a manager that failed); with any other value or none, only requests
\* whose signature verified get that far.
C16_InsecureMode ==
    \A u \in DOMAIN reqs :
        LET q == reqs[u]
        IN  /\ (/\ InsecureAsked
                /\ q.xsig = <<>>
                /\ q.xhub = <<>>
                /\ ParseRepo(Bodies[q.body], CheckoutRoot) # <<>>)
                   => q.status \in {0, 202, 500, 503}
            /\ (~InsecureAsked /\ q.status \in {0, 202, 503}) => Verified(q)

\* C17: no step removes a log file, and after every step each request
\* answered 202 has its log file, so that GET /tasks/<uuid> answers 200 for
\* it, whether its task is pending, running, cancelled or finished.
C17_AdmissionLog ==
    [][/\ \A u \in DOMAIN files : u \in DOMAIN files'
       /\ \A u \in DOMAIN reqs' :
              (reqs'[u].status = 202 \/ reqs'[u].task # NoTask) =>
                  /\ u \in DOMAIN files'
                  /\ (get_task(u))' = 200]_<<vars, ivars>>

\* a request was answered 202, its task was evicted and cancelled, and its
\* log is there; another accepted task has finished and a third is running
C17_Witness ==
    \E u, v, x \in DOMAIN reqs :
        /\ reqs[u].status = 202
        /\ reqs[u].task # NoTask
        /\ tasks[reqs[u].task].status = "cancelled"
        /\ get_task(u) = 200
        /\ reqs[v].status = 202
        /\ tasks[reqs[v].task].status = "completed"
        /\ reqs[x].status = 202
        /\ tasks[reqs[x].task].status = "running"

\* C18: once the manager is stopped, a request that passed its checks and
\* has not called add_task yet can only wait, take the lock, or be answered
\* 503 by a step that changes no task, queue or worker; a request answered
\* 503 has no task (every task is another request's), so nothing of it is
\* ever pending or run.
C18_ShutdownGives503 ==
    [][/\ \A u \in DOMAIN reqs :
            (stopped /\ reqs[u].pc \in {"created", "locked"}) =>
                \/ reqs'[u] = reqs[u]
                \/ reqs'[u] = [reqs[u] EXCEPT !.pc = "locked"]
                \/ /\ reqs'[u] = [reqs[u] EXCEPT !.pc = "done", !.status = 503]
                   /\ tasks' = tasks
                   /\ queues' = queues
                   /\ workers' = workers
       /\ \A u \in DOMAIN reqs' :
            reqs'[u].status = 503 =>
                /\ reqs'[u].task = NoTask
                /\ \A t \in DOMAIN tasks' :
                       \E v \in DOMAIN reqs' : v # u /\ reqs'[v].task = t]_<<vars, ivars>>

\* a request with a verified signature and a parseable payload, whose log
\* was created, was answered 503 by the stopped manager
C18_Witness ==
    \E u \in DOMAIN reqs :
        /\ stopped
        /\ Verified(reqs[u])
        /\ reqs[u].repo # <<>>
        /\ u \in DOMAIN files
        /\ reqs[u].pc = "done"
        /\ reqs[u].status = 503

\* The checkout directory of the task a worker is running
RunningPath(w) == reqs[ReqOf(workers[w].task)].repo[1].local_path

\* C19: no two workers are inside run() at the same time with tasks whose
\* GitRepo.local_path is the same.
C19_CheckoutExclusive ==
    \A v, w \in DOMAIN workers :
        (v # w /\ workers[v].pc = "running" /\ workers[w].pc = "running")
            => RunningPath(v) # RunningPath(w)

\* The part of local_path after "<checkoutRoot>/"
Component(r) == SubSeq(r.local_path, Len(CheckoutRoot) + 2, Len(r.local_path))

\* Where a path leads: its segments, with "" and "." dropped and ".." taking
\* the path one level up
RECURSIVE Walk(_, _)
Walk(segs, at) ==
    IF segs = <<>> THEN at
    ELSE LET seg == Head(segs)
         IN  Walk(Tail(segs),
                  IF seg \in {<<>>, <<".">>} THEN at
                  ELSE IF seg = <<".", ".">>
                  THEN SubSeq(at, 1, Len(at) - 1)
                  ELSE Append(at, seg))

Resolve(path) == Walk(Split(path, "/"), <<>>)

StrictlyInside(path, root) ==
    /\ Len(Resolve(path)) > Len(Resolve(root))
    /\ SubSeq(Resolve(path), 1, Len(Resolve(root))) = Resolve(root)

NoSeparators(s) == \A i \in DOMAIN s : s[i] \notin {"/", "\\"}

\* C20: for every payload either parser accepts, the component appended to
\* checkoutRoot contains neither "/" nor "\", and local_path leads strictly
\* inside checkoutRoot.
C20_PathSanitization ==
    repo # <<>> =>
        /\ NoSeparators(Component(repo[1]))
        /\ StrictlyInside(repo[1].local_path, CheckoutRoot)

\* The terminal notifications dispatched so far
Terminal == SelectSeq(notified, LAMBDA n : n # "Started")

\* C21: when a run in which the command runner was invoked has returned,
\* exactly one terminal notification was dispatched: Success if the runner
\* returned exit status 0, Failed if it returned another status or an error.
C21_TerminalNotification ==
    (dpc = "returned" /\ output_result # <<>>) =>
        Terminal = IF output_result[1].ok /\ success(output_result[1])
                   THEN <<"Success">> ELSE <<"Failed">>

\* The ConfigMap the last lookup was made in: <<>> or <<map>>
LookedIn == IF repo[1].reftype = "branch" THEN config[1].branch ELSE config[1].tag

\* The pattern matches the name: with every "*" turned into ".*?" and
\* anchored, it is a regular expression that matches it
PatternMatches(pattern, name) ==
    /\ ~Regex_new_is_err(regex_string(pattern))
    /\ is_match(regex_string(pattern), name)

\* The specificity order of wildcard patterns: fewer "*" first, then the
\* longer pattern, then the lexicographically smaller
MoreSpecific(p, q) ==
    \/ Wildcards(p) < Wildcards(q)
    \/ Wildcards(p) = Wildcards(q) /\ Len(p) > Len(q)
    \/ Wildcards(p) = Wildcards(q) /\ Len(p) = Len(q) /\ StrLess(p, q)

\* The wildcard patterns of a map that match the name
MatchingWildcards(map, name) ==
    {p \in DOMAIN map : p # Star /\ Wildcards(p) > 0 /\ PatternMatches(p, name)}

\* C22: lookup returns the entry whose pattern equals the name if there is
\* one; otherwise the most specific matching wildcard pattern; otherwise the
\* catch-all "*".
C22_PatternPriority ==
    (dpc = "resolved" /\ LookedIn # <<>>) =>
        LET map == LookedIn[1]
            name == repo[1].refstring
            matching == MatchingWildcards(map, name)
        IN  IF name \in DOMAIN map THEN ref_config = <<map[name]>>
            ELSE IF matching # {}
            THEN /\ ref_config # <<>>
                 /\ ref_config[1].pattern \in matching
                 /\ \A p \in matching :
                        p = ref_config[1].pattern
                            \/ MoreSpecific(ref_config[1].pattern, p)
            ELSE Star \in DOMAIN map => ref_config = <<map[Star]>>

\* C24: lookup returns None only if the map is absent, or no entry equals
\* the name, no wildcard pattern matches it and there is no "*" entry; with
\* a "*" entry in the map it returns an entry for every name.
C24_CatchAllFallback ==
    (dpc = "resolved" /\ ref_config = <<>> /\ LookedIn # <<>>) =>
        /\ repo[1].refstring \notin DOMAIN LookedIn[1]
        /\ MatchingWildcards(LookedIn[1], repo[1].refstring) = {}
        /\ Star \notin DOMAIN LookedIn[1]

\* The file is TOML with neither a [branch.<pattern>] nor a [tag.<pattern>]
\* entry
NoEntries(file) ==
    /\ file.utf8
    /\ file.parses
    /\ \A group \in {"branch", "tag"} \cap DOMAIN file.root :
           file.root[group].type = "table" => DOMAIN file.root[group].table = {}

\* C27: loading a .hookshot.conf with neither a branch nor a tag entry never
\* returns Ok.
C27_MissingConfiguration ==
    (config # <<>> /\ toml # <<>> /\ NoEntries(toml[1])) => ~config[1].ok

\* The patterns of a vector of Configs
PatternsOf(v) == [i \in DOMAIN v |-> v[i].pattern]

\* Config's ordering is a strict total order on the elements of the vector
StrictTotalOrder(v) ==
    /\ \A i, j \in DOMAIN v :
           i # j => /\ partial_cmp(v[i], v[j]) \in {"Less", "Greater"}
                    /\ partial_cmp(v[i], v[j]) = "Less"
                           <=> partial_cmp(v[j], v[i]) = "Greater"
    /\ \A i, j, k \in DOMAIN v :
           (partial_cmp(v[i], v[j]) = "Less" /\ partial_cmp(v[j], v[k]) = "Less")
               => partial_cmp(v[i], v[k]) = "Less"

\* C23: sorting the fixture patterns in any order gives branch-one,
\* branch-one-two, branch-*, branch*, *-one-*, *; Config's ordering is a
\* strict total order on different patterns, and every order of the same
\* Configs is sorted to the same vector, the ascending one.
C23_SpecificityOrder ==
    [][(dpc = "unsorted" /\ dpc' = "sorted") =>
          /\ StrictTotalOrder(wildcards)
          /\ Len(wildcards) <= MaxEntries =>
                 \A v \in Orders({wildcards[i] : i \in DOMAIN wildcards}) :
                     sort(v) = wildcards'
          /\ {wildcards'[i] : i \in DOMAIN wildcards'}
                 = {wildcards[i] : i \in DOMAIN wildcards}
          /\ \A i, j \in DOMAIN wildcards' :
                 i < j => partial_cmp(wildcards'[i], wildcards'[j]) = "Less"
          /\ {wildcards[i] : i \in DOMAIN wildcards}
                 = {branch_config_pattern(expected_patterns[i]) :
                        i \in DOMAIN expected_patterns}
                 => PatternsOf(wildcards') = expected_patterns]_<<vars, ivars>>

\* the fixture's Configs were sorted
C23_Witness ==
    /\ dpc = "sorted"
    /\ PatternsOf(wildcards) = expected_patterns

\* C25: the text form of create(alg, data, key), for each of the seven
\* algorithms and every data and key, parses to a Signature equal to the
\* created one, which verifies against the same data and key; and verify of
\* any parsed signature against any (data, key) answers whether the signature
\* equals create(its algorithm, data, key).
C25_SignatureRoundTrip ==
    dpc \in {"parsed", "verified"} =>
        LET r == sigrec[1]
        IN  /\ r.sig1 # <<>> =>
                /\ r.sig2 = r.sig1
                /\ r.sig2 = <<Signature_create(r.sig1[1].alg, r.data, r.key)>>
            /\ dpc = "verified" =>
                /\ r.verified
                       = <<r.sig2[1]
                             = Signature_create(r.sig2[1].alg, r.vdata, r.vkey)>>
                /\ (r.sig1 # <<>> /\ r.vdata = r.data /\ r.vkey = r.key)
                       => r.verified = <<TRUE>>

\* a created RIPEMD160 signature went through its text form and verified
C25_Witness ==
    /\ dpc = "verified"
    /\ sigrec[1].sig1 # <<>>
    /\ sigrec[1].sig1[1].alg = "RIPEMD160"
    /\ sigrec[1].sig2 = sigrec[1].sig1
    /\ sigrec[1].vdata = sigrec[1].data
    /\ sigrec[1].vkey = sigrec[1].key
    /\ sigrec[1].verified = <<TRUE>>

\* the text "sha256=" followed by the hex HMAC-SHA256 of a body under a key
Sha256Header(body, key) ==
    <<"s", "h", "a", "2", "5", "6", "=">>
        \o bytes_to_hex(hmac("SHA256", key, MessageData(body)))

\* C26: every notification POST carries an X-Hookshot-Signature header that
\* is "sha256=" followed by the hex HMAC-SHA256 of the body that POST sends,
\* keyed with the secret of the task's server, so that the header parses and
\* verifies against that body and secret; and the POSTs made for one state
\* of the task carry the same body and the same header to every URL.
C26_NotifierSigning ==
    \A i \in DOMAIN posts :
        /\ posts[i].XHookshotSignature = Sha256Header(posts[i].body, Secret)
        /\ Signature_from(posts[i].XHookshotSignature) # <<>>
        /\ Signature_verify(Signature_from(posts[i].XHookshotSignature)[1],
                            MessageData(posts[i].body), Secret)
        /\ posts[i].body = Message(DeployTask(repo[1]), posts[i].body.status)
        /\ \A j \in DOMAIN posts :
               posts[j].body.status = posts[i].body.status =>
                   /\ posts[j].body = posts[i].body
                   /\ posts[j].XHookshotSignature = posts[i].XHookshotSignature

\* the Failed state of a task went to two different URLs, after its Started
\* state had gone out under another signature
C26_Witness ==
    \E i, j, k \in DOMAIN posts :
        /\ posts[i].body.status = "Failed"
        /\ posts[j].body.status = "Failed"
        /\ posts[i].url # posts[j].url
        /\ posts[k].body.status = "Started"
        /\ posts[k].XHookshotSignature # posts[i].XHookshotSignature

\* C28: a server configuration whose queue_limit is 1 is accepted by
\* ServerConfig::from with queue_limit Some(1), and the task manager of the
\* server started from it has the per-queue limit 1.
C28_QueueLimitOne ==
    (toml # <<>> /\ toml[1] = ServerToml(<<TomlIntegerValue(TestLimit)>>)) =>
        /\ config[1].ok
        /\ config[1].queue_limit = Some(TestLimit)
        /\ dpc = "serving" => limit = Some(TestLimit)

\* C29: under every limit the manager can be constructed with, 0 included,
\* a task whose add_task returned Ok was appended to its queue: it is pending
\* there, or was popped and had run() called, or was evicted and had cancel()
\* called; it is never a task that got neither.
C29_NoSilentDrop ==
    \A t \in DOMAIN tasks :
        tasks[t].res = "Ok" =>
            /\ tasks[t].status
                   \in {"pending", "running", "completed", "panicked", "cancelled"}
            /\ tasks[t].status = "cancelled" <=> tasks[t].cancels > 0

\* C30: the handler checks the signature, then parses the payload, then
\* creates the log file, then asks the manager, and stops at the first stage
\* that fails: a request whose signature is not valid and whose body cannot
\* be parsed is answered 401, a 400 is only ever given to a request whose
\* signature verified, a request answered 500 has no task, and whatever
\* reached the log file or the manager had passed signature and parsing.
C30_AdmissionOrder ==
    \A u \in DOMAIN reqs :
        LET q == reqs[u]
            parsed == ParseRepo(Bodies[q.body], CheckoutRoot) # <<>>
        IN  /\ (~Verified(q) /\ ~parsed) => (q.pc = "done" /\ q.status = 401)
            /\ q.status = 400 => (Verified(q) /\ ~parsed)
            /\ q.status = 500 => (q.task = NoTask /\ q.pc = "done")
            /\ (u \in DOMAIN files \/ q.task # NoTask \/ q.status \in {202, 503})
                   => (Verified(q) /\ parsed)

\* C31: no write to a task's log file overwrites what another thread wrote
\* there; in particular the handler's "task pending" never lands in a file
\* that the worker running the task has opened and written.
C31_NoLogContention ==
    \A u \in DOMAIN files :
        /\ \A i \in DOMAIN files[u] : files[u][i].over = ""
        /\ (reqs[u].run # "none" /\ files[u] # <<>>)
               => Head(files[u]) = Chunk("system user")

\* C32: once every request handler has finished, the log file of a task
\* that was evicted from its queue holds "task cancelled" and a newline,
\* nothing else.
C32_CancelledLog ==
    (\A v \in DOMAIN reqs : reqs[v].pc = "done") =>
        \A u \in DOMAIN reqs :
            (reqs[u].task # NoTask /\ tasks[reqs[u].task].status = "cancelled")
                => (u \in DOMAIN files /\ files[u] = <<Chunk("task cancelled\n")>>)

\* C33: within one DeployTask::run the config is loaded only after
\* get_latest succeeded, Started is sent in the step that loaded the config
\* successfully and before the ref is looked up, the runner is executed only
\* after the lookup found a Config, and the terminal notification comes only
\* after the runner returned; a run in which get_latest or the load failed
\* has sent no notification at all.
C33_LifecycleOrder ==
    [][/\ config' # config =>
              /\ dpc = "fetched" /\ config = <<>>
              /\ notified = <<>> /\ ref_config = <<>> /\ output_result = <<>>
              /\ notified' = IF config'[1].ok THEN <<"Started">> ELSE <<>>
       /\ (dpc = "started" /\ dpc' # dpc) =>
              /\ config[1].ok
              /\ notified = <<"Started">> /\ notified' = notified
              /\ output_result = <<>> /\ output_result' = <<>>
       /\ output_result' # output_result =>
              /\ ref_config # <<>> /\ ref_config' = ref_config
              /\ notified = <<"Started">> /\ notified' = notified
       /\ (notified' # notified /\ notified # <<>>) =>
              /\ output_result # <<>> /\ output_result[1].ok
              /\ notified = <<"Started">>
              /\ notified' \in {<<"Started", "Success">>, <<"Started", "Failed">>}
       /\ (dpc' \in {"returned", "panicked"} /\ (config' = <<>> \/ ~config'[1].ok)) =>
              /\ notified' = <<>> /\ senders' = <<>> /\ posts' = <<>>
              /\ ref_config' = <<>> /\ output_result' = <<>>
       /\ Len(senders') <= Len(notified')
      ]_<<vars, ivars>>

\* a run went through all its steps and both its notifications were posted
C33_Witness ==
    /\ dpc = "returned"
    /\ notified = <<"Started", "Success">>
    /\ ref_config # <<>>
    /\ output_result # <<>>
    /\ \E i, j \in DOMAIN posts :
           posts[i].body.status = "Started" /\ posts[j].body.status = "Success"

\* C34: whenever get_latest returns a CommandError, with or without the
\* output of a git process, DeployTask::run logs it and returns without
\* panicking, and neither loads the config nor notifies nor runs a task.
C34_FetchFailure ==
    [][(dpc = "logging" /\ dpc' # "fetched") =>
           /\ dpc' = "returned"
           /\ config' = <<>> /\ ref_config' = <<>> /\ output_result' = <<>>
           /\ notified' = <<>> /\ senders' = <<>> /\ posts' = <<>>
      ]_<<vars, ivars>>

\* The git command a step ran: <<>> or <<command>>
Ran == IF Len(git'.cmds) > Len(git.cmds) THEN <<git'.cmds[Len(git'.cmds)]>> ELSE <<>>

\* What a step made get_latest return: <<>> or <<result>>
Returned ==
    IF Len(git'.results) > Len(git.results)
    THEN <<git'.results[Len(git'.results)]>> ELSE <<>>

LastCommand == git.cmds[Len(git.cmds)]

HeadsPrefix == RefsStr \o <<"/">> \o HeadsStr \o <<"/">>
TagsPrefix == RefsStr \o <<"/">> \o TagsStr \o <<"/">>

\* what follows `prefix` in s
After(prefix, s) == SubSeq(s, Len(prefix) + 1, Len(s))

\* s is `prefix` followed by a non-empty name
Names(prefix, s) == IsPrefix(prefix, s) /\ Len(s) > Len(prefix)

\* C36: a GitHub-dialect payload whose ref is refs/heads/<name> with a
\* non-empty name gives a branch event whose ref name is the whole of
\* <name>, refs/tags/<name> gives a tag event likewise, and a ref of any
\* other shape is rejected; the GitRepo made from the payload carries that
\* type and name.
C36_GitHubRefDecoding ==
    (payload # <<>> /\ payload[1].json /\ "ref" \in DOMAIN payload[1].obj) =>
        LET ref == payload[1].obj["ref"]
        IN  /\ (Names(HeadsPrefix, ref) \/ Names(TagsPrefix, ref))
                   => GitHubMessage_from_str(payload[1]) # <<>>
            /\ repo # <<>> =>
                   \/ /\ Names(HeadsPrefix, ref)
                      /\ repo[1].reftype = "branch"
                      /\ repo[1].refstring = After(HeadsPrefix, ref)
                   \/ /\ Names(TagsPrefix, ref)
                      /\ repo[1].reftype = "tag"
                      /\ repo[1].refstring = After(TagsPrefix, ref)

\* the string an entry or the [default] table gives for a key, if any
Given(table, key) ==
    IF key \in DOMAIN table /\ table[key].type = "string"
    THEN <<table[key].str>> ELSE <<>>

DefaultOf(root) ==
    IF "default" \in DOMAIN root /\ root["default"].type = "table"
    THEN root["default"].table ELSE EmptyTable

\* the entry's own value, else the default's
Effective(root, entry, key) ==
    IF Given(entry, key) # <<>> THEN Given(entry, key)
    ELSE Given(DefaultOf(root), key)

\* the entries of a group of the file
Entries(root, group) ==
    IF group \in DOMAIN root /\ root[group].type = "table"
    THEN DOMAIN root[group].table ELSE {}

\* every key of the table is a string the loader accepts
ValidFields(table) ==
    /\ \A k \in DOMAIN table : table[k].type = "string"
    /\ Given(table, "method") \in Optional({"ansible", "make", "makefile"})
    /\ Given(table, "task") \in Optional(MakefileTasks)
    /\ Given(table, "playbook") \in Optional(ProjectFiles)
    /\ Given(table, "inventory") \in Optional(ProjectFiles)

\* a file whose groups and entries are tables of valid fields, each entry
\* with a method of its own or the default's
WellFormed(root) ==
    /\ "default" \in DOMAIN root => root["default"].type = "table"
    /\ ValidFields(DefaultOf(root))
    /\ \A g \in {"branch", "tag"} :
           /\ g \in DOMAIN root => root[g].type = "table"
           /\ \A p \in Entries(root, g) :
                  /\ root[g].table[p].type = "table"
                  /\ ValidFields(root[g].table[p].table)
                  /\ Effective(root, root[g].table[p].table, "method") # <<>>

\* the entry's method has what its runner needs
AnsibleLacks(root, entry) ==
    /\ Effective(root, entry, "method") = <<"ansible">>
    /\ \/ Effective(root, entry, "playbook") = <<>>
       \/ Effective(root, entry, "inventory") = <<>>

MakeLacks(root, entry) ==
    /\ Effective(root, entry, "method") \in {<<"make">>, <<"makefile">>}
    /\ Effective(root, entry, "task") = <<>>

\* C37: every entry of a successfully loaded RepoConfig carries the runner
\* of its method and no other: an ansible task with playbook and inventory
\* if and only if the method is ansible, a make task if and only if it is
\* makefile, each field the entry's own value or else the default's; a
\* well-formed file with an entry that lacks its runner's fields fails to
\* load with InvalidAnsibleConfig or InvalidMakeTaskConfig; so the Config
\* that DeployTask::run looks up always has the task of its method.
C37_ResolvableAction ==
    (dpc # "idle" /\ toml # <<>> /\ toml[1].utf8 /\ toml[1].parses) =>
        LET root == toml[1].root
            r == config[1]
            Table(g, p) == root[g].table[p].table
            Lacking == {gp \in UNION {{<<g, p>> : p \in Entries(root, g)} :
                                          g \in {"branch", "tag"}} :
                            \/ AnsibleLacks(root, Table(gp[1], gp[2]))
                            \/ MakeLacks(root, Table(gp[1], gp[2]))}
        IN  /\ r.ok =>
                \A g \in {"branch", "tag"} : \A p \in Entries(root, g) :
                    LET c == (IF g = "branch" THEN r.branch ELSE r.tag)[1][p]
                        e == Table(g, p)
                    IN  /\ ~AnsibleLacks(root, e)
                        /\ ~MakeLacks(root, e)
                        /\ c.method = "Ansible"
                               <=> Effective(root, e, "method") = <<"ansible">>
                        /\ c.ansible_task # <<>> <=> c.method = "Ansible"
                        /\ c.make_task # <<>> <=> c.method = "Makefile"
                        /\ c.method = "Ansible" =>
                               c.ansible_task =
                                   <<[playbook |-> Effective(root, e, "playbook")[1],
                                      inventory |-> Effective(root, e, "inventory")[1]]>>
                        /\ c.method = "Makefile" =>
                               c.make_task = Effective(root, e, "task")
            /\ WellFormed(root) =>
                   /\ r.ok <=> Lacking = {}
                   /\ ~r.ok =>
                          \/ /\ r.error = "InvalidAnsibleConfig"
                             /\ \E gp \in Lacking :
                                    AnsibleLacks(root, Table(gp[1], gp[2]))
                          \/ /\ r.error = "InvalidMakeTaskConfig"
                             /\ \E gp \in Lacking :
                                    MakeLacks(root, Table(gp[1], gp[2]))
            /\ (dpc = "resolved" /\ ref_config # <<>>) =>
                   /\ ref_config[1].method = "Ansible"
                          => ref_config[1].ansible_task # <<>>
                   /\ ref_config[1].method = "Makefile"
                          => ref_config[1].make_task # <<>>

\* An entry that names no method and no inventory, under a default that is
\* ansible with playbook and inventory, overrides the playbook and is looked
\* up with the ansible task of the inherited and the overriding fields.
C37_Witness ==
    /\ dpc = "resolved"
    /\ toml # <<>>
    /\ toml[1].parses
    /\ "default" \in DOMAIN toml[1].root
    /\ "branch" \in DOMAIN toml[1].root
    /\ toml[1].root["branch"].type = "table"
    /\ <<"a">> \in DOMAIN toml[1].root["branch"].table
    /\ LET e == toml[1].root["branch"].table[<<"a">>]
           d == DefaultOf(toml[1].root)
       IN  /\ e.type = "table"
           /\ DOMAIN e.table = {"playbook"}
           /\ Given(d, "method") = <<"ansible">>
           /\ Given(d, "playbook") = <<"deploy.yml">>
           /\ Given(e.table, "playbook") = <<"inventory">>
    /\ ref_config # <<>>
    /\ ref_config[1].ansible_task =
           <<[playbook |-> "inventory", inventory |-> "inventory"]>>
    /\ ref_config[1].make_task = <<>>


\* C38: notifications never block the deploy worker: whatever the notifier
\* threads do, every task the queue accepted is taken by the worker and its
\* run ends, so that from some point on no accepted task is left waiting,
\* although no POST of any notification need ever be made.
C38_NeverBlocks ==
    <>[](\A t \in DOMAIN tasks :
             tasks[t].res = "Ok" => tasks[t].status \in {"completed", "panicked"})

\* The second task of the queue is running and has notified nobody yet,
\* while a thread spawned for the first task has made none of its POSTs.
C38_Witness ==
    /\ runlog[1] = <<1, 2>>
    /\ tasks[1].status = "completed"
    /\ tasks[2].status = "running"
    /\ dpc = "fetched"
    /\ notified = <<>>
    /\ senders # <<>>
    /\ senders[1].next = 1
    /\ posts = <<>>

\* C39 as stated: add_task never panics: whenever it has passed the stopped
\* check and found the queue of its key, the thread map has a worker for
\* the key and that worker has not exited, so that the call returns Ok,
\* QueueMissing or Shutdown.
C39_AddTaskNeverPanics ==
    /\ result \in {"none", "Ok", "QueueMissing", "Shutdown"}
    /\ mpc.op = "add_task" =>
           /\ mpc.key \in DOMAIN threads
           /\ workers[threads[mpc.key]].pc # "exited"

\* the wake-ups of a key's queue that are still to come: those buffered in
\* the channel of its worker, the one its worker has received and not yet
\* acted on, and the one an add_task between push_task and send is to send
RECURSIVE Buffered(_)
Buffered(ws) ==
    IF ws = {} THEN 0
    ELSE LET w == CHOOSE x \in ws : TRUE
         IN  workers[w].wake + (IF workers[w].pc = "woken" THEN 1 ELSE 0)
                 + Buffered(ws \ {w})

Undelivered(k) ==
    Buffered(LiveWorkers(k))
        + (IF mpc.op = "add_task" /\ mpc.key = k /\ k \in DOMAIN threads
           THEN 1 ELSE 0)

\* C40 as stated, on a manager whose shutdown() is never called, with the
\* workers scheduled and every run() ending: the wake-ups still to come for
\* a queue are never fewer than its pending tasks; a woken worker either
\* finds its queue empty and waits again, leaving everything as it is, or
\* takes the oldest pending task; and every task for which add_task
\* returned Ok is eventually run, unless it is evicted.
C40_NoLostWakeups ==
    /\ [](\A k \in DOMAIN queues : Len(queues[k]) <= Undelivered(k))
    /\ [][\A w \in DOMAIN workers :
              (workers[w].pc = "woken" /\ workers'[w].pc # "woken") =>
                  LET k == workers[w].key
                  IN  IF queues[k] = <<>>
                      THEN /\ workers'[w].pc = "recv"
                           /\ UNCHANGED <<queues, tasks, runlog>>
                      ELSE /\ workers'[w].pc = "running"
                           /\ workers'[w].task = Head(queues[k])
                           /\ queues'[k] = Tail(queues[k])]_vars
    /\ \A t \in 1 .. MaxTasks :
           (t \in DOMAIN tasks /\ tasks[t].res = "Ok")
               ~> (/\ t \in DOMAIN tasks
                   /\ tasks[t].status \in {"running", "completed", "panicked",
                                           "cancelled"})

====
